---- MODULE Spec2Model ----
(***************************************************************************)
(* RGPV result scraper: the OCR worker pool and the OCR queue of           *)
(* CaptchaSolver, the consensus vote of solveMultipleCaptchas, the session *)
(* workflow of FormFetcher.fetchInitialData and the response classifier of *)
(* ResultSubmitter.submitFormWithCaptcha.                                  *)
(*                                                                         *)
(* JavaScript runs one callback at a time: an action below is the code     *)
(* that runs between two awaits (or timer callbacks) of one call.          *)
(***************************************************************************)
EXTENDS Integers, Sequences, FiniteSets, TLC

(***************************************************************************)
(* Bounds of the model.                                                    *)
(***************************************************************************)
\* solveCaptcha calls made on the one CaptchaSolver
NTasks == 3
\* solveCaptcha calls of the run whose liveness is checked (FairSpecPool)
NBatchCalls == 2
\* engine creations/initializations that may fail during one run
MaxInitFailures == 1
\* pool sizes the entry point may ask for (index.js --ocr-concurrency)
MaxPoolSize == 2
\* initWorkerPool calls made by the entry points (index.js main, batchProcess)
NInitCalls == 2
\* releaseWorker calls made from outside solveCaptcha
NReleaseCalls == 2

\* the largest count (maxSamples) solveMultipleCaptchas is called with
MaxCount == 4
\* the largest earlyMatchCount (earlyStopVotes) it is called with
MaxEarly == 3

\* fetchInitialData calls made on the one FormFetcher
NFetchCalls == 2
\* submitFormWithCaptcha calls made one after the other (attempts of a student)
NSubmitCalls == 2
\* getResult calls made one after the other on the one RGPVScraper
NResultCalls == 2
\* the largest options.maxRetries the scraper is constructed with
MaxRetriesLimit == 3
\* the longest list of students batchProcess is called with
NStudents == 2
\* the largest concurrency batchProcess is called with
MaxConcurrency == 2

(***************************************************************************)
(* Program constants.                                                      *)
(***************************************************************************)
\* a queue that lets a third call in
OcrQueueOfThree == 2 + 1
\* this.ocrQueue = pLimit(2)
OcrQueueConcurrency == 2
\* async initWorkerPool(poolSize = 2)
DefaultPoolSize == 2
\* if (this.workerPool.length === 0 && i >= 3)
CreateGiveUpIndex == 3

Tasks == 1..NTasks
\* the caller of initWorkerPool/cleanup outside solveCaptcha (main, batchProcess)
Main == 0
Procs == Tasks \cup {Main}
\* "no slot": what find() returns when every slot is busy
NoWorker == 0

VARIABLES
  \* CaptchaSolver fields
  workerPool,        \* sequence of [worker |-> engine id, busy |-> BOOLEAN]
  isPoolInitialized,
  \* engine instances created so far (the next createWorker() returns a new one)
  nextWorker,
  \* p-limit state of this.ocrQueue: the pending calls and the running count
  ocrQueue,
  activeCount,
  \* per solveCaptcha call (and for Main): where it is; per call, the engine of
  \* the slot getAvailableWorker gave it
  pc,
  held,
  \* per initWorkerPool call (by a task through getAvailableWorker, or by Main)
  initI,
  initN,
  initFailures,
  \* history: the initWorkerPool calls the entry points have made, and the
  \* engines cleanup has terminated
  initCalls,
  disposed

poolHistory == <<initCalls, disposed>>

poolVars == <<workerPool, isPoolInitialized, nextWorker, ocrQueue, activeCount,
              pc, held, initI, initN, initFailures, initCalls, disposed>>

VARIABLES
  \* solveMultipleCaptchas(captchaUrl, count, earlyMatchCount): its parameters
  \* and its locals
  vPc,
  count,
  earlyMatchCount,
  i,
  results,
  counts,
  mostCommonResult,
  maxCount,
  \* what solveCaptcha returned in the latest iteration (the local "result")
  lastResult

voteVars == <<vPc, count, earlyMatchCount, i, results, counts, mostCommonResult,
              maxCount, lastResult>>

VARIABLES
  \* FormFetcher.sessionId, shared by the calls; per fetchInitialData call:
  \* where it is, the Location header of the step-2 response, whether it made
  \* the step-3 request, what it returned
  sessionId,
  fPc,
  location,
  step3Issued,
  fRet

fetchVars == <<sessionId, fPc, location, step3Issued, fRet>>

VARIABLES
  \* submitFormWithCaptcha: the calls made so far; of the latest one: where it
  \* is, the markers the response text carries, the exception raised inside
  \* the call (if any), how it ended
  sCalls,
  sPc,
  html,
  sFault,
  sRet

submitVars == <<sCalls, sPc, html, sFault, sRet>>

VARIABLES
  \* RGPVScraper: whether it was constructed, this.maxRetries, this.blacklist,
  \* and the files results/<rollNumber>.json (what each holds, "none" if absent)
  scraper,
  maxRetries,
  blacklist,
  files

scraperVars == <<scraper, maxRetries, blacklist, files>>

VARIABLES
  \* getResult: the calls made so far; of the latest one: where it is, its
  \* roll number, the locals attempt, success, resultData, errors, siteErrors,
  \* scrapedData and captchaResult of the running attempt, and what it returned;
  \* and its history: the attempts begun, the fetchInitialData calls made, the
  \* submissions made (attempt and the context and CAPTCHA text they carried)
  gCalls,
  gPc,
  gRoll,
  attempt,
  success,
  resultData,
  errors,
  siteErrors,
  scrapedData,
  captchaResult,
  gRet,
  attemptsRun,
  workflowCalls,
  submissions

resultVars == <<gCalls, gPc, gRoll, attempt, success, resultData, errors,
                siteErrors, scrapedData, captchaResult, gRet, attemptsRun,
                workflowCalls, submissions>>

VARIABLES
  \* batchProcess: where the call is; its arguments students, concurrency and
  \* progressCallback ("quiet" when there is none or it returns, "throws" for
  \* one that throws); filteredStudents; per limited task
  \* (one per element that map visits): its state and the path its getResult
  \* call took; the locals results, retries, completedCount; the list returned;
  \* and history: the blacklist as it was at the call, and the tasks in which
  \* the callback threw, and the initializations and teardowns of the worker
  \* pool made since the call, with who made them (Main is batchProcess itself)
  \* and the tasks that had not ended then; and per task how the attempt loop
  \* of its getResult call ended
  bPc,
  students,
  concurrency,
  progressCallback,
  filteredStudents,
  tPc,
  tPath,
  batchResults,
  retries,
  completedCount,
  returnedList,
  blacklistAtCall,
  callbackThrew,
  poolEvents,
  tEnd

batchVars == <<bPc, students, concurrency, progressCallback, filteredStudents,
               tPc, tPath, batchResults, retries, completedCount, returnedList,
               blacklistAtCall, callbackThrew, poolEvents, tEnd>>

\* the fields of the solver that initWorkerPool and cleanup write, and the
\* state of its solveCaptcha calls
poolFields == <<workerPool, isPoolInitialized, nextWorker>>
poolCalls == <<ocrQueue, activeCount, pc, held, initI, initN, initFailures>>

VARIABLES
  \* the remote service, as the pending request of a pipeline meets it:
  \* "answers" (with a response or with a network error), or "stalled" when it
  \* never answers that request
  remote

networkVars == <<remote>>

VARIABLES
  \* per solveCaptcha call, the sample it is given and what became of it: the
  \* image downloadCaptcha got, its temporary file ("none", "written",
  \* "deleted"), the worker.recognize calls made for it and how the call ended
  \* ("pending", "recognized", "failed")
  samples,
  \* history: the engines releaseWorker was called with from outside
  \* solveCaptcha
  released

sampleVars == <<samples, released>>

vars == <<poolVars, voteVars, fetchVars, submitVars, scraperVars, resultVars,
          batchVars, networkVars, sampleVars>>

otherThanPool ==
  <<voteVars, fetchVars, submitVars, scraperVars, resultVars, batchVars, networkVars,
    sampleVars>>
otherThanVote ==
  <<poolVars, fetchVars, submitVars, scraperVars, resultVars, batchVars, networkVars,
    sampleVars>>
otherThanFetch ==
  <<poolVars, voteVars, submitVars, scraperVars, resultVars, batchVars, networkVars,
    sampleVars>>
otherThanSubmit ==
  <<poolVars, voteVars, fetchVars, scraperVars, resultVars, batchVars, networkVars,
    sampleVars>>
otherThanResult ==
  <<poolVars, voteVars, fetchVars, submitVars, batchVars, networkVars,
    sampleVars>>
otherThanBatch ==
  <<poolVars, voteVars, fetchVars, submitVars, resultVars, networkVars,
    sampleVars>>
otherThanPoolAndSamples ==
  <<voteVars, fetchVars, submitVars, scraperVars, resultVars, batchVars, networkVars>>
otherThanBatchAndPool ==
  <<poolCalls, voteVars, fetchVars, submitVars, resultVars, networkVars,
    sampleVars>>

(***************************************************************************)
(* The slot table.                                                         *)
(***************************************************************************)
\* a find() that does not look at the busy flag
AnySlots(pool) == 1..Len(pool)
\* the slots with busy === false
FreeSlots(pool) == {k \in 1..Len(pool) : ~pool[k].busy}

\* this.workerPool.find(w => !w.busy): the first idle slot, or none
FindFree(pool) ==
  IF FreeSlots(pool) = {} THEN 0
  ELSE CHOOSE k \in FreeSlots(pool) : \A j \in FreeSlots(pool) : k <= j

\* availableWorker.busy = true
MarkBusy(pool, k) == [pool EXCEPT ![k].busy = TRUE]

\* a release that leaves the busy flag set
ReleaseNothing(pool, w) == pool
\* a release that marks every slot idle
ReleaseEverySlot(pool, w) ==
  [k \in 1..Len(pool) |-> [pool[k] EXCEPT !.busy = FALSE]]
\* releaseWorker(workerObj): the slot with the same engine, if any, gets idle
ReleaseWorker(pool, w) ==
  [k \in 1..Len(pool) |->
     IF pool[k].worker = w THEN [pool[k] EXCEPT !.busy = FALSE] ELSE pool[k]]

(***************************************************************************)
(* The part of the solver's state that one synchronous run of code reads   *)
(* and writes, as a record, so that runs compose (the end of one queued    *)
(* call starts the next one in the same turn of the event loop).           *)
(***************************************************************************)
Now ==
  [pool |-> workerPool, inited |-> isPoolInitialized, queue |-> ocrQueue,
   active |-> activeCount, pc |-> pc, held |-> held, initI |-> initI,
   initN |-> initN]

Becomes(s) ==
  /\ workerPool' = s.pool
  /\ isPoolInitialized' = s.inited
  /\ ocrQueue' = s.queue
  /\ activeCount' = s.active
  /\ pc' = s.pc
  /\ held' = s.held
  /\ initI' = s.initI
  /\ initN' = s.initN

\* getAvailableWorker after the pool check: take the first idle slot, or start
\* polling (the setInterval of 100 ms)
FindWorker(s, t) ==
  LET k == FindFree(s.pool) IN
  IF k # 0
  THEN [s EXCEPT !.pool = MarkBusy(s.pool, k), !.held[t] = s.pool[k].worker,
                 !.pc[t] = "holding"]
  ELSE [s EXCEPT !.pc[t] = "waiting"]

\* getAvailableWorker up to its first await: an uninitialized pool is
\* initialized first, with the default pool size
GetAvailableWorker(s, t) ==
  IF ~s.inited
  THEN [s EXCEPT !.pc[t] = "init", !.initI[t] = 0, !.initN[t] = DefaultPoolSize]
  ELSE FindWorker(s, t)

\* p-limit run(): activeCount++ and the queued function runs to its first await,
\* which is the one on getAvailableWorker
RunQueued(s, t) == GetAvailableWorker([s EXCEPT !.active = @ + 1], t)

\* p-limit next(): activeCount-- and the head of the queue, if any, is run
NextQueued(s) ==
  LET s1 == [s EXCEPT !.active = @ - 1] IN
  IF s1.queue = <<>> THEN s1
  ELSE RunQueued([s1 EXCEPT !.queue = Tail(@)], Head(s1.queue))

\* a return that skips the finally block
FinishKeepsSlot(s, t) ==
  NextQueued([s EXCEPT !.held[t] = NoWorker, !.pc[t] = "done"])
\* the finally block of solveCaptcha (releaseWorker) and the return of the
\* queued function, after which p-limit runs the next one
Finish(s, t) ==
  NextQueued([s EXCEPT !.pool = ReleaseWorker(s.pool, s.held[t]),
                       !.held[t] = NoWorker, !.pc[t] = "done"])

(***************************************************************************)
(* solveCaptcha(imageData).                                                *)
(***************************************************************************)
\* the call: invalid image data returns '' at once; otherwise the call goes
\* through this.ocrQueue, which runs it now if fewer than 2 are running
Called(s, t, hasImage) ==
  IF ~hasImage THEN [s EXCEPT !.pc[t] = "done"]
  ELSE IF s.active < OcrQueueConcurrency THEN RunQueued(s, t)
  ELSE [s EXCEPT !.queue = Append(@, t), !.pc[t] = "queued"]

SolveCaptcha(t, hasImage) ==
  /\ pc[t] = "idle"
  /\ pc[Main] # "init"
  /\ Becomes(Called(Now, t, hasImage))
  /\ UNCHANGED <<nextWorker, initFailures>>
  /\ UNCHANGED poolHistory
  /\ UNCHANGED otherThanPool

\* the 100 ms poll of getAvailableWorker finds an idle slot
Poll(t) ==
  /\ pc[t] = "waiting"
  /\ FindFree(workerPool) # 0
  /\ Becomes(FindWorker(Now, t))
  /\ UNCHANGED <<nextWorker, initFailures>>
  /\ UNCHANGED poolHistory
  /\ UNCHANGED otherThanPool

\* validateImageFile: an invalid file throws, which the catch turns into ''
\* and the finally into a release; a valid one starts the first recognition
Validated(s, t, valid) ==
  IF valid THEN [s EXCEPT !.pc[t] = "recognize1"] ELSE Finish(s, t)

Validate(t, valid) ==
  /\ pc[t] = "holding"
  /\ Becomes(Validated(Now, t, valid))
  /\ UNCHANGED <<nextWorker, initFailures>>
  /\ UNCHANGED poolHistory
  /\ UNCHANGED otherThanPool

\* the first worker.recognize settles: a text is returned; a failure is retried
\* on a new file when the buffer is longer than 100 bytes, and counts as a
\* failed sample otherwise
Recognized1(s, t, outcome) ==
  IF outcome = "failRetry" THEN [s EXCEPT !.pc[t] = "recognize2"]
  ELSE Finish(s, t)

Recognize1(t, outcome) ==
  /\ pc[t] = "recognize1"
  /\ Becomes(Recognized1(Now, t, outcome))
  /\ UNCHANGED <<nextWorker, initFailures>>
  /\ UNCHANGED poolHistory
  /\ UNCHANGED otherThanPool

\* the second worker.recognize settles, with a text or with a failure
Recognize2(t) ==
  /\ pc[t] = "recognize2"
  /\ Becomes(Finish(Now, t))
  /\ UNCHANGED <<nextWorker, initFailures>>
  /\ UNCHANGED poolHistory
  /\ UNCHANGED otherThanPool

(***************************************************************************)
(* initWorkerPool(poolSize), one iteration of its loop per step.           *)
(***************************************************************************)
\* an end of the loop that never throws
InitDoneUnchecked(s, p) ==
  IF p = Main THEN [s EXCEPT !.inited = TRUE, !.pc[p] = "ready"]
  ELSE [s EXCEPT !.inited = TRUE, !.pc[p] = "waiting"]
\* the end of the loop: no slot at all throws, otherwise the pool counts as
\* initialized and the caller goes on (a task looks for a slot)
InitDone(s, p) ==
  IF Len(s.pool) = 0
  THEN IF p = Main THEN [s EXCEPT !.pc[p] = "failed"]
       ELSE NextQueued([s EXCEPT !.pc[p] = "threw"])
  ELSE IF p = Main THEN [s EXCEPT !.inited = TRUE, !.pc[p] = "ready"]
       ELSE FindWorker([s EXCEPT !.inited = TRUE], p)

\* i++ and the loop test
InitAdvance(s, p) ==
  LET s1 == [s EXCEPT !.initI[p] = @ + 1] IN
  IF s1.initI[p] < s1.initN[p] THEN s1 ELSE InitDone(s1, p)

\* the catch of a failed createWorker: give up when there is no slot and i >= 3
CreateFailed(s, p) ==
  IF Len(s.pool) = 0 /\ s.initI[p] >= CreateGiveUpIndex
  THEN IF p = Main THEN [s EXCEPT !.pc[p] = "failed"]
       ELSE NextQueued([s EXCEPT !.pc[p] = "threw"])
  ELSE InitAdvance(s, p)

InitWorkerPoolStep(p, outcome) ==
  /\ pc[p] = "init"
  /\ UNCHANGED otherThanPool
  /\ UNCHANGED poolHistory
  /\ outcome # "ok" => initFailures < MaxInitFailures
  /\ initFailures' = IF outcome = "ok" THEN initFailures ELSE initFailures + 1
  /\ nextWorker' = IF outcome = "createFail" THEN nextWorker ELSE nextWorker + 1
  /\ CASE outcome = "ok" ->
            Becomes(InitAdvance(
              [Now EXCEPT !.pool = Append(@, [worker |-> nextWorker + 1,
                                              busy |-> FALSE])], p))
       [] outcome = "createFail" -> Becomes(CreateFailed(Now, p))
       \* the engine is terminated, i-- undoes the i++: the same i again
       [] outcome = "initFail" -> Becomes(Now)

\* a test that always starts the loop
NeverInitialized(inited) == FALSE
\* if (this.isPoolInitialized) return;
AlreadyInitialized(inited) == inited

\* initWorkerPool(n) called by an entry point, up to its first await: it
\* returns at once on an initialized pool, and starts its loop otherwise
EntryInit(n) ==
  /\ IF AlreadyInitialized(isPoolInitialized)
     THEN Becomes([Now EXCEPT !.pc[Main] = "ready"])
     ELSE Becomes([Now EXCEPT !.pc[Main] = "init", !.initI[Main] = 0,
                              !.initN[Main] = n])
  /\ initCalls' = initCalls + 1
  /\ UNCHANGED <<nextWorker, initFailures, disposed>>
  /\ UNCHANGED otherThanPool

\* the entry point's own initWorkerPool(n), before any solveCaptcha call
MainInit(n) ==
  /\ pc[Main] = "idle"
  /\ \A t \in Tasks : pc[t] = "idle"
  /\ EntryInit(n)

\* a further initWorkerPool(n) by an entry point after the first one has
\* returned (batchProcess after main), whatever the solveCaptcha calls do
InitAgain(n) ==
  /\ pc[Main] = "ready"
  /\ initCalls < NInitCalls
  /\ EntryInit(n)

\* the sample of a call that was given none yet
NoSample == [image |-> "none", file |-> "none", recognitions |-> 0,
             result |-> "pending"]

\* cleanupTempFiles: every file listed in this.tempFiles is deleted
CleanupTempFiles(sm) ==
  [t \in DOMAIN sm |->
     IF sm[t].file = "written" THEN [sm[t] EXCEPT !.file = "deleted"] ELSE sm[t]]

\* the engines of the slots of a pool
Engines(pool) == {pool[k].worker : k \in 1..Len(pool)}

\* a reset that forgets the flag and keeps the slots
ShutdownKeepsSlots(s) == [s EXCEPT !.inited = FALSE]
\* this.workerPool = []; this.isPoolInitialized = false;
Shutdown(s) == [s EXCEPT !.pool = <<>>, !.inited = FALSE]

\* cleanup(), awaited by the entry point once every call has settled: every
\* engine is terminated, the pool is emptied and marked uninitialized
Cleanup ==
  /\ pc[Main] \in {"idle", "ready", "failed"}
  /\ \A t \in Tasks : pc[t] \in {"idle", "done", "threw"}
  /\ Becomes([Shutdown(Now) EXCEPT !.pc[Main] = "cleaned"])
  /\ disposed' = disposed \cup Engines(workerPool)
  /\ samples' = CleanupTempFiles(samples)
  /\ UNCHANGED <<nextWorker, initFailures, initCalls, released>>
  /\ UNCHANGED otherThanPoolAndSamples

InitPool ==
  /\ workerPool = <<>>
  /\ isPoolInitialized = FALSE
  /\ nextWorker = 0
  /\ ocrQueue = <<>>
  /\ activeCount = 0
  /\ pc = [p \in Procs |-> "idle"]
  /\ held = [t \in Tasks |-> NoWorker]
  /\ initI = [p \in Procs |-> 0]
  /\ initN = [p \in Procs |-> 0]
  /\ initFailures = 0
  /\ initCalls = 0
  /\ disposed = {}
  /\ samples = [t \in Tasks |-> NoSample]
  /\ released = {}

NextPool ==
  \/ \E t \in Tasks, hasImage \in BOOLEAN : SolveCaptcha(t, hasImage)
  \/ \E t \in Tasks : Poll(t)
  \/ \E t \in Tasks, valid \in BOOLEAN : Validate(t, valid)
  \/ \E t \in Tasks, o \in {"ok", "failRetry", "failNoRetry"} : Recognize1(t, o)
  \/ \E t \in Tasks : Recognize2(t)
  \/ \E p \in Procs, o \in {"ok", "createFail", "initFail"} : InitWorkerPoolStep(p, o)
  \/ \E n \in 1..MaxPoolSize : MainInit(n)
  \/ Cleanup

(***************************************************************************)
(* solveMultipleCaptchas.  A text is a sequence of characters; '' is <<>>. *)
(***************************************************************************)
Letters == {"A", "B", "C", "D", "E", "F", "G", "H", "I", "J", "K", "L", "M",
            "N", "O", "P", "Q", "R", "S", "T", "U", "V", "W", "X", "Y", "Z"}
Digits == {"0", "1", "2", "3", "4", "5", "6", "7", "8", "9"}
\* the class [A-Z0-9] of the regular expression of solveCaptcha
Allowed == Letters \cup Digits
IsAllowed(ch) == ch \in Allowed
Whitespace == {" ", "\n", "\t"}

\* String.prototype.trim
RECURSIVE Trim(_)
Trim(text) ==
  IF text = <<>> THEN text
  ELSE IF Head(text) \in Whitespace THEN Trim(Tail(text))
  ELSE IF text[Len(text)] \in Whitespace THEN Trim(SubSeq(text, 1, Len(text) - 1))
  ELSE text

\* a cleaning that keeps every character
CleanNothing(text) == text
\* data.text.replace(/[^A-Z0-9]/g, '').trim()
Clean(text) == Trim(SelectSeq(text, IsAllowed))

\* the texts worker.recognize may give: clean ones, one with a blank and a line
\* end, a lower-case one, a too short and a too long one, and one of seven
\* characters of which six are in the alphabet
RawTexts ==
  { <<"A", "B", "3", "D">>,
    <<"X", "9", "Y", "2">>,
    <<"A", "B", " ", "3", "D", "\n">>,
    <<"a", "b", "3", "d", "\n">>,
    <<"A", "B", "3", "\n">>,
    <<"A", "B", "3", "D", "E", "F", "G">>,
    <<"X", "9", "-", "Y", "2", "K", "7">> }

\* what one iteration of the loop meets: the download throws, solveCaptcha
\* rejects (the pool cannot be initialized), solveCaptcha returns '' (invalid
\* image, failed recognition), or the recognition gives a text
Samples ==
  {[kind |-> k, raw |-> <<>>] : k \in {"downloadError", "solveThrows", "ocrFailed"}}
    \cup {[kind |-> "text", raw |-> r] : r \in RawTexts}

\* the value solveCaptcha resolves to
SolveCaptchaResult(sample) ==
  IF sample.kind = "text" THEN Clean(sample.raw) ELSE <<>>

\* result && result.length >= 4 && result.length <= 6
Accepted(result) == result # <<>> /\ Len(result) >= 4 /\ Len(result) <= 6

\* counts[result] = (counts[result] || 0) + 1
Tally(c, result) ==
  IF result \in DOMAIN c THEN [c EXCEPT ![result] = @ + 1]
  ELSE [k \in DOMAIN c \cup {result} |-> IF k = result THEN 1 ELSE c[k]]

\* a leader test that lets an equal count displace the leader
LeaderOnTie(c, m) == c >= m
\* a leader test that needs two votes more than the maximum
LeaderNeedsTwo(c, m) == c > m + 1
\* counts[result] > maxCount
NewLeader(c, m) == c > m

\* a loop that never stops early
NeverStop(m, e) == FALSE
\* maxCount >= earlyMatchCount
EarlyStop(m, e) == m >= e

\* the call, with its parameters
SolveMultipleCaptchas(c, e) ==
  /\ vPc = "idle"
  /\ vPc' = "loop"
  /\ count' = c
  /\ earlyMatchCount' = e
  /\ UNCHANGED <<i, results, counts, mostCommonResult, maxCount, lastResult>>
  /\ UNCHANGED otherThanVote

\* i++ and the loop test; the function returns mostCommonResult after the loop
NextIteration ==
  /\ i' = i + 1
  /\ vPc' = IF i + 1 < count THEN "loop" ELSE "done"

\* one iteration of the loop
VoteSample(sample) ==
  /\ vPc = "loop"
  /\ UNCHANGED <<count, earlyMatchCount>>
  /\ UNCHANGED otherThanVote
  /\ IF sample.kind \in {"downloadError", "solveThrows"}
     THEN \* continue, or the catch of the iteration
          /\ NextIteration
          /\ UNCHANGED <<results, counts, mostCommonResult, maxCount, lastResult>>
     ELSE LET result == SolveCaptchaResult(sample) IN
          /\ lastResult' = result
          /\ IF ~Accepted(result)
             THEN /\ NextIteration
                  /\ UNCHANGED <<results, counts, mostCommonResult, maxCount>>
             ELSE LET c == Tally(counts, result) IN
                  /\ results' = Append(results, result)
                  /\ counts' = c
                  /\ IF NewLeader(c[result], maxCount)
                     THEN /\ maxCount' = c[result]
                          /\ mostCommonResult' = result
                          /\ IF EarlyStop(c[result], earlyMatchCount)
                             THEN \* break
                                  /\ vPc' = "done"
                                  /\ i' = i
                             ELSE NextIteration
                     ELSE /\ NextIteration
                          /\ UNCHANGED <<mostCommonResult, maxCount>>

InitVote ==
  /\ vPc = "idle"
  /\ count = 0
  /\ earlyMatchCount = 0
  /\ i = 0
  /\ results = <<>>
  /\ counts = [k \in {} |-> 0]
  /\ mostCommonResult = <<>>
  /\ maxCount = 0
  /\ lastResult = <<>>

NextVote ==
  \/ \E c \in 1..MaxCount, e \in 1..MaxEarly : SolveMultipleCaptchas(c, e)
  \/ \E sample \in Samples : VoteSample(sample)

(***************************************************************************)
(* FormFetcher.fetchInitialData.  A Location header is the sequence of the *)
(* pieces of its text; a session token is the number of the call it was    *)
(* issued to, and 0 is the empty session id.                               *)
(***************************************************************************)
FetchCalls == 1..NFetchCalls
NoSession == 0
\* postResponse.headers.get('location') === null
NoLocation == <<"(no location header)">>
ResultsForm == "BErslt.aspx"

\* the Location headers a step-2 response may carry
Locations ==
  { NoLocation,
    <<>>,
    <<"/Result/", "BErslt.aspx">>,
    <<"/Result/", "ProgramSelect.aspx">>,
    <<"/Result/", "Error.aspx", "?aspxerrorpath=", "/Result/", "BErslt.aspx">> }

\* String.prototype.includes, on the pieces
Includes(text, piece) == \E k \in 1..Len(text) : text[k] = piece

\* a test that follows every redirect
FollowsAnyRedirect(loc) == loc # NoLocation /\ loc # <<>>
\* location && location.includes('BErslt.aspx')
FollowsRedirect(loc) ==
  loc # NoLocation /\ loc # <<>> /\ Includes(loc, ResultsForm)

\* what a call returns: null, or the scraped data (of which the session id is
\* kept here); "pending" while it runs
NullResult == [kind |-> "null", sessionId |-> NoSession]
Scraped(token) == [kind |-> "data", sessionId |-> token]
Pending == [kind |-> "pending", sessionId |-> NoSession]

\* catch (error) { ...; return null; }
Caught == NullResult

\* the token a response's set-cookie header leaves in this.sessionId
AfterSetCookie(current, hasSessionCookie, c) ==
  IF hasSessionCookie THEN c ELSE current

\* the call: the step-1 request is sent
FetchInitialData(c) ==
  /\ fPc[c] = "idle"
  /\ fPc' = [fPc EXCEPT ![c] = "step1"]
  /\ UNCHANGED <<sessionId, location, step3Issued, fRet>>
  /\ UNCHANGED otherThanFetch

\* the end of a call on an exception
FetchFails(c) ==
  /\ fPc' = [fPc EXCEPT ![c] = "done"]
  /\ fRet' = [fRet EXCEPT ![c] = Caught]

\* the step-1 response: this.sessionId is reset and set from its cookie; then
\* the body is awaited
Step1Response(c, ok, hasSessionCookie) ==
  /\ fPc[c] = "step1"
  /\ UNCHANGED <<location, step3Issued>>
  /\ UNCHANGED otherThanFetch
  /\ IF ok
     THEN /\ sessionId' = AfterSetCookie(NoSession, hasSessionCookie, c)
          /\ fPc' = [fPc EXCEPT ![c] = "text1"]
          /\ UNCHANGED fRet
     ELSE /\ FetchFails(c)
          /\ UNCHANGED sessionId

\* the step-1 body: the hidden fields are read and the step-2 request is sent
Step1Body(c, ok) ==
  /\ fPc[c] = "text1"
  /\ UNCHANGED <<sessionId, location, step3Issued>>
  /\ UNCHANGED otherThanFetch
  /\ IF ok
     THEN /\ fPc' = [fPc EXCEPT ![c] = "step2"]
          /\ UNCHANGED fRet
     ELSE FetchFails(c)

\* the step-2 response: its cookie updates this.sessionId; a redirect to the
\* results form is followed (step 3: the target is resolved and requested),
\* any other response ends the call with null
Step2Response(c, ok, hasSessionCookie, loc) ==
  /\ fPc[c] = "step2"
  /\ UNCHANGED otherThanFetch
  /\ IF ok
     THEN /\ sessionId' = AfterSetCookie(sessionId, hasSessionCookie, c)
          /\ location' = [location EXCEPT ![c] = loc]
          /\ IF FollowsRedirect(loc)
             THEN /\ step3Issued' = [step3Issued EXCEPT ![c] = TRUE]
                  /\ fPc' = [fPc EXCEPT ![c] = "step3"]
                  /\ UNCHANGED fRet
             ELSE /\ fPc' = [fPc EXCEPT ![c] = "done"]
                  /\ fRet' = [fRet EXCEPT ![c] = NullResult]
                  /\ UNCHANGED step3Issued
     ELSE /\ FetchFails(c)
          /\ UNCHANGED <<sessionId, location, step3Issued>>

\* the step-3 response (or the failure of step 3: of the resolution of the
\* target or of the request): its cookie updates this.sessionId; then the body
\* is awaited
Step3Response(c, ok, hasSessionCookie) ==
  /\ fPc[c] = "step3"
  /\ UNCHANGED <<location, step3Issued>>
  /\ UNCHANGED otherThanFetch
  /\ IF ok
     THEN /\ sessionId' = AfterSetCookie(sessionId, hasSessionCookie, c)
          /\ fPc' = [fPc EXCEPT ![c] = "text3"]
          /\ UNCHANGED fRet
     ELSE /\ FetchFails(c)
          /\ UNCHANGED sessionId

\* the step-3 body: the scraped data is returned, with this.sessionId in it
Step3Body(c, ok) ==
  /\ fPc[c] = "text3"
  /\ UNCHANGED <<sessionId, location, step3Issued>>
  /\ UNCHANGED otherThanFetch
  /\ IF ok
     THEN /\ fPc' = [fPc EXCEPT ![c] = "done"]
          /\ fRet' = [fRet EXCEPT ![c] = Scraped(sessionId)]
     ELSE FetchFails(c)

InitFetch ==
  /\ sessionId = NoSession
  /\ fPc = [c \in FetchCalls |-> "idle"]
  /\ location = [c \in FetchCalls |-> NoLocation]
  /\ step3Issued = [c \in FetchCalls |-> FALSE]
  /\ fRet = [c \in FetchCalls |-> Pending]

NextFetch ==
  \/ \E c \in FetchCalls : FetchInitialData(c)
  \/ \E c \in FetchCalls, ok, ck \in BOOLEAN : Step1Response(c, ok, ck)
  \/ \E c \in FetchCalls, ok \in BOOLEAN : Step1Body(c, ok)
  \/ \E c \in FetchCalls, ok, ck \in BOOLEAN, loc \in Locations :
       Step2Response(c, ok, ck, loc)
  \/ \E c \in FetchCalls, ok, ck \in BOOLEAN : Step3Response(c, ok, ck)
  \/ \E c \in FetchCalls, ok \in BOOLEAN : Step3Body(c, ok)

(***************************************************************************)
(* ResultSubmitter.submitFormWithCaptcha.  A response text is the set of   *)
(* the markers it contains (none of the markers contains another one).     *)
(***************************************************************************)
Markers == {"Invalid Captcha Code", "Roll No does not exist",
            "Site Under Construction", "under maintenance", "Result", "Grade"}
\* no response text yet
NoHtml == {"(no response)"}

\* the result object of a call; "" is an absent error, "none" absent data
Returned(ok, error, data) ==
  [kind |-> "returned", success |-> ok, error |-> error, data |-> data]
NoReturn == [kind |-> "pending", success |-> FALSE, error |-> "", data |-> "none"]
ThrownError(message) ==
  [kind |-> "thrown", success |-> FALSE, error |-> message, data |-> "none"]

\* the messages of the exceptions raised inside the call
FaultMessage(fault) ==
  CASE fault = "transport" -> "request to BErslt.aspx failed"
    [] fault = "body" -> "Invalid response body"
    [] fault = "write" -> "EACCES: permission denied, open results/<rollNumber>.json"
    [] OTHER -> ""

\* a catch that lets the error out
RethrowsError(message) == ThrownError(message)
\* catch (error) { return { success: false, error: error.message || String(error) } }
CaughtError(message) == Returned(FALSE, message, "none")

\* a chain that looks for the maintenance banner before the unknown roll number
ClassifyMaintenanceFirst(text, extracted) ==
  IF "Invalid Captcha Code" \in text
  THEN Returned(FALSE, "Invalid CAPTCHA code entered", "none")
  ELSE IF "Site Under Construction" \in text \/ "under maintenance" \in text
  THEN Returned(FALSE, "Site is under maintenance", "none")
  ELSE IF "Roll No does not exist" \in text
  THEN Returned(FALSE, "Roll number does not exist", "none")
  ELSE IF "Result" \in text /\ "Grade" \in text
  THEN Returned(TRUE, "", IF extracted THEN "data" ELSE "null")
  ELSE Returned(FALSE, "Unexpected response from server", "none")
\* the if/else chain over html.includes(...); extractResultData gives the data,
\* or null when it fails
Classify(text, extracted) ==
  IF "Invalid Captcha Code" \in text
  THEN Returned(FALSE, "Invalid CAPTCHA code entered", "none")
  ELSE IF "Roll No does not exist" \in text
  THEN Returned(FALSE, "Roll number does not exist", "none")
  ELSE IF "Site Under Construction" \in text \/ "under maintenance" \in text
  THEN Returned(FALSE, "Site is under maintenance", "none")
  ELSE IF "Result" \in text /\ "Grade" \in text
  THEN Returned(TRUE, "", IF extracted THEN "data" ELSE "null")
  ELSE Returned(FALSE, "Unexpected response from server", "none")

\* a call (the first, or the next one once the previous has ended): without
\* CAPTCHA data it returns a failure at once, otherwise the request is sent
SubmitFormWithCaptcha(hasCaptchaData) ==
  /\ sPc \in {"idle", "done"}
  /\ sCalls < NSubmitCalls
  /\ sCalls' = sCalls + 1
  /\ html' = NoHtml
  /\ sFault' = "none"
  /\ UNCHANGED otherThanSubmit
  /\ IF hasCaptchaData
     THEN /\ sPc' = "fetch"
          /\ sRet' = NoReturn
     ELSE /\ sPc' = "done"
          /\ sRet' = Returned(FALSE, "No CAPTCHA data provided", "none")

\* the request settles: a network error is caught; otherwise the body is awaited
SubmitResponse(ok) ==
  /\ sPc = "fetch"
  /\ UNCHANGED <<sCalls, html>>
  /\ UNCHANGED otherThanSubmit
  /\ IF ok
     THEN /\ sPc' = "text"
          /\ UNCHANGED <<sFault, sRet>>
     ELSE /\ sPc' = "done"
          /\ sFault' = "transport"
          /\ sRet' = CaughtError(FaultMessage("transport"))

\* the body settles: a failure is caught; otherwise the text is classified, and
\* on success the extracted data is written to the result file, whose failure
\* is caught as well
SubmitBody(ok, text, extracted, written) ==
  /\ sPc = "text"
  /\ sPc' = "done"
  /\ UNCHANGED sCalls
  /\ UNCHANGED otherThanSubmit
  /\ IF ~ok
     THEN /\ sFault' = "body"
          /\ sRet' = CaughtError(FaultMessage("body"))
          /\ UNCHANGED html
     ELSE /\ html' = text
          /\ LET r == Classify(text, extracted) IN
             IF r.success /\ extracted /\ ~written
             THEN /\ sFault' = "write"
                  /\ sRet' = CaughtError(FaultMessage("write"))
             ELSE /\ sRet' = r
                  /\ UNCHANGED sFault

InitSubmit ==
  /\ sCalls = 0
  /\ sPc = "idle"
  /\ html = NoHtml
  /\ sFault = "none"
  /\ sRet = NoReturn

NextSubmit ==
  \/ \E has \in BOOLEAN : SubmitFormWithCaptcha(has)
  \/ \E ok \in BOOLEAN : SubmitResponse(ok)
  \/ \E ok, extracted, written \in BOOLEAN, text \in SUBSET Markers :
       SubmitBody(ok, text, extracted, written)

(***************************************************************************)
(* RGPVScraper: the constructor and getResult.  fetchInitialData,          *)
(* processCaptcha and submitFormWithCaptcha never throw: each of them      *)
(* returns a value for every failure, so the catch of an attempt is never  *)
(* entered.                                                                *)
(***************************************************************************)
Rolls == {"0101CS211001", "0101CS211002"}
NoFile == "none"
\* what a result file may hold: a result saved by an earlier run, or the one
\* submitFormWithCaptcha wrote in this run
Payloads == {"stored", "data"}

\* options.maxRetries || 3
MaxRetriesOption(m) == IF m = 0 THEN 3 ELSE m

\* loadBlacklist: the roll numbers that have a result file
LoadBlacklist(dir) == {r \in Rolls : dir[r] # NoFile}

\* a push that leaves only the new roll number
BlacklistOverwrite(list, roll) == {roll}
\* if (!this.blacklist.includes(rollNumber)) this.blacklist.push(rollNumber)
BlacklistPush(list, roll) == list \cup {roll}

\* new RGPVScraper(options), with the results directory as it is found
NewScraper(m, dir) ==
  /\ scraper = "none"
  /\ scraper' = "ready"
  /\ maxRetries' = MaxRetriesOption(m)
  /\ files' = dir
  /\ blacklist' = LoadBlacklist(dir)
  /\ UNCHANGED resultVars
  /\ UNCHANGED otherThanResult

\* the values fetchInitialData resolves to: null, or a new context object,
\* named by the call and the fetch that made it
NoContext == [call |-> 0, fetch |-> 0]
\* a fetch that hands out the first context of the call again
FirstContext(call, fetch) == [call |-> call, fetch |-> 1]
NewContext(call, fetch) == [call |-> call, fetch |-> fetch]

\* the value of processCaptcha: null, or { captchaText, jsonData: formData }
NoCaptcha == [captchaText |-> 0, jsonData |-> NoContext]
CaptchaResult(solvedIn, formData) == [captchaText |-> solvedIn, jsonData |-> formData]

\* a test that takes every value for an object
NeverMissing(value) == FALSE
\* if (!scrapedData), if (!captchaResult): the value is null
Missing(value) == value \in {NoContext, NoCaptcha}

\* what submitFormWithCaptcha may return when it is given CAPTCHA data
SubmissionResults ==
  {Classify(text, extracted) : text \in SUBSET Markers, extracted \in BOOLEAN}
    \cup {CaughtError(FaultMessage(fault)) : fault \in {"transport", "body", "write"}}

\* a test that never finds the maintenance message
NeverMaintenance(error) == FALSE
\* a test that takes the unknown roll number for the maintenance message too
MaintenanceOrUnknownRoll(error) ==
  error \in {"Site is under maintenance", "Roll number does not exist"}
\* submissionResult?.error?.includes("maintenance"), over the error messages
\* of the model: one of them contains the word
IncludesMaintenance(error) == error = "Site is under maintenance"

\* a loop that goes on after a success
ContinuesAfterSuccess(a, m, ok) == a <= m
\* attempt <= this.maxRetries && !success
LoopContinues(a, m, ok) == a <= m /\ ~ok

\* the outcome objects of getResult
CachedOutcome(data) ==
  [kind |-> "returned", success |-> TRUE, data |-> data, attempts |-> -1,
   message |-> "Result loaded from cache"]
Outcome3(ok, data, errs) ==
  [kind |-> "returned", success |-> ok, data |-> data, attempts |-> Len(errs),
   message |-> ""]
NoOutcome ==
  [kind |-> "pending", success |-> FALSE, data |-> "none", attempts |-> -1,
   message |-> ""]
ThrownOutcome ==
  [kind |-> "thrown", success |-> FALSE, data |-> "none", attempts |-> -1,
   message |-> "ENOENT: no such file or directory"]

\* fs.readFileSync + JSON.parse of results/<rollNumber>.json
ReadResultFile(dir, roll) ==
  IF dir[roll] = NoFile THEN ThrownOutcome ELSE CachedOutcome(dir[roll])

\* the loop header, reached with the index a, the locals ok, data, errs, and
\* the attempts begun and fetchInitialData calls made so far in this call:
\* either the next attempt begins with its fetchInitialData call, or the
\* function returns
LoopHeader(a, ok, data, errs, begun, fetches) ==
  /\ attempt' = a
  /\ scrapedData' = NoContext
  /\ captchaResult' = NoCaptcha
  /\ IF LoopContinues(a, maxRetries, ok)
     THEN /\ gPc' = "workflow"
          /\ attemptsRun' = begun + 1
          /\ workflowCalls' = fetches + 1
          /\ gRet' = NoOutcome
     ELSE /\ gPc' = "done"
          /\ gRet' = Outcome3(ok, data, errs)
          /\ attemptsRun' = begun
          /\ workflowCalls' = fetches

\* the end of the loop by break
Break(ok, data, errs) ==
  /\ gPc' = "done"
  /\ gRet' = Outcome3(ok, data, errs)
  /\ UNCHANGED <<attempt, scrapedData, captchaResult, attemptsRun, workflowCalls>>

\* a call of getResult, up to its first await: the cached result is read and
\* returned (or the read throws), or the first attempt begins
GetResult(roll) ==
  /\ scraper = "ready"
  /\ gPc \in {"idle", "done"}
  /\ gCalls < NResultCalls
  /\ gCalls' = gCalls + 1
  /\ gRoll' = roll
  /\ success' = FALSE
  /\ resultData' = "null"
  /\ errors' = <<>>
  /\ siteErrors' = <<>>
  /\ submissions' = <<>>
  /\ UNCHANGED scraperVars
  /\ UNCHANGED otherThanResult
  /\ IF roll \in blacklist
     THEN /\ gPc' = "done"
          /\ gRet' = ReadResultFile(files, roll)
          /\ attempt' = 0
          /\ scrapedData' = NoContext
          /\ captchaResult' = NoCaptcha
          /\ attemptsRun' = 0
          /\ workflowCalls' = 0
     ELSE LoopHeader(1, FALSE, "null", <<>>, 0, 0)

\* fetchInitialData settles: null is an error of step 1 and the next attempt;
\* a context goes to processCaptcha
WorkflowSettles(fetched) ==
  /\ gPc = "workflow"
  /\ UNCHANGED <<gCalls, gRoll, success, resultData, siteErrors, submissions>>
  /\ UNCHANGED scraperVars
  /\ UNCHANGED otherThanResult
  /\ LET context == IF fetched THEN NewContext(gCalls, workflowCalls)
                    ELSE NoContext
     IN
     IF ~Missing(context)
     THEN /\ scrapedData' = context
          /\ gPc' = "captcha"
          /\ UNCHANGED <<attempt, errors, captchaResult, gRet, attemptsRun,
                         workflowCalls>>
     ELSE LET errs == Append(errors, [attempt |-> attempt, step |-> 1,
                                       error |-> "Failed to fetch initial data"]) IN
          /\ errors' = errs
          /\ LoopHeader(attempt + 1, success, resultData, errs, attemptsRun, workflowCalls)

\* processCaptcha settles: null is an error of step 2 and the next attempt;
\* a solution is submitted with the context it was solved for
CaptchaSettles(solved) ==
  /\ gPc = "captcha"
  /\ UNCHANGED <<gCalls, gRoll, success, resultData, siteErrors>>
  /\ UNCHANGED scraperVars
  /\ UNCHANGED otherThanResult
  /\ LET solution == IF solved THEN CaptchaResult(attempt, scrapedData)
                     ELSE NoCaptcha
     IN
     IF ~Missing(solution)
     THEN /\ captchaResult' = solution
          /\ submissions' = Append(submissions,
                                   [attempt |-> attempt,
                                    captchaText |-> solution.captchaText,
                                    jsonData |-> solution.jsonData])
          /\ gPc' = "submit"
          /\ UNCHANGED <<attempt, errors, scrapedData, gRet, attemptsRun,
                         workflowCalls>>
     ELSE LET errs == Append(errors, [attempt |-> attempt, step |-> 2,
                                       error |-> "Failed to solve CAPTCHA"]) IN
          /\ errors' = errs
          /\ UNCHANGED submissions
          /\ LoopHeader(attempt + 1, success, resultData, errs, attemptsRun, workflowCalls)

\* submitFormWithCaptcha settles: a failure is an error of step 3 and, unless
\* it is the maintenance message, the next attempt; a success puts the roll
\* number on the blacklist (the submitter has written the result file when it
\* could extract the data) and ends the loop
SubmitSettles(r) ==
  /\ gPc = "submit"
  /\ UNCHANGED <<gCalls, gRoll, submissions>>
  /\ UNCHANGED <<scraper, maxRetries>>
  /\ UNCHANGED otherThanResult
  /\ IF ~r.success
     THEN LET errs == Append(errors, [attempt |-> attempt, step |-> 3,
                                       error |-> r.error]) IN
          /\ errors' = errs
          /\ UNCHANGED <<success, resultData, blacklist, files>>
          /\ IF IncludesMaintenance(r.error)
             THEN /\ siteErrors' = Append(siteErrors, [attempt |-> attempt,
                                                        error |-> r.error])
                  /\ Break(success, resultData, errs)
             ELSE /\ UNCHANGED siteErrors
                  /\ LoopHeader(attempt + 1, success, resultData, errs, attemptsRun, workflowCalls)
     ELSE /\ success' = TRUE
          /\ resultData' = r.data
          /\ blacklist' = BlacklistPush(blacklist, gRoll)
          /\ files' = IF r.data = "data" THEN [files EXCEPT ![gRoll] = "data"]
                      ELSE files
          /\ UNCHANGED <<errors, siteErrors>>
          /\ LoopHeader(attempt + 1, TRUE, r.data, errors, attemptsRun,
                        workflowCalls)

InitResult ==
  /\ scraper = "none"
  /\ maxRetries = 3
  /\ blacklist = {}
  /\ files = [r \in Rolls |-> NoFile]
  /\ gCalls = 0
  /\ gPc = "idle"
  /\ gRoll = "none"
  /\ attempt = 0
  /\ success = FALSE
  /\ resultData = "null"
  /\ errors = <<>>
  /\ siteErrors = <<>>
  /\ scrapedData = NoContext
  /\ captchaResult = NoCaptcha
  /\ gRet = NoOutcome
  /\ attemptsRun = 0
  /\ workflowCalls = 0
  /\ submissions = <<>>

NextResult ==
  \/ \E m \in 0..MaxRetriesLimit, dir \in [Rolls -> {NoFile, "stored"}] :
       NewScraper(m, dir)
  \/ \E roll \in Rolls : GetResult(roll)
  \/ \E fetched \in BOOLEAN : WorkflowSettles(fetched)
  \/ \E solved \in BOOLEAN : CaptchaSettles(solved)
  \/ \E r \in SubmissionResults : SubmitSettles(r)

(***************************************************************************)
(* RGPVScraper.batchProcess.  A getResult call is summed up here by the    *)
(* path it takes at the call (the cached result, the failing read of the   *)
(* result file, or the attempt loop) and by how the attempt loop ends.     *)
(* p-limit starts a queued task as soon as a running one has ended.        *)
(***************************************************************************)
Student(roll, force) == [rollNumber |-> roll, forceReprocess |-> force]

\* the lists of students of a call; the empty one stands for every argument
\* that is refused
StudentLists ==
  UNION {[1..n -> {Student(r, f) : r \in Rolls, f \in BOOLEAN}] : n \in 0..NStudents}

\* a filter that keeps every student
KeepsAll(student, known) == TRUE
\* !this.blacklist.includes(student.rollNumber) || student.forceReprocess === true
PassesFilter(student, known) ==
  student.rollNumber \notin known \/ student.forceReprocess

\* students.filter(...), with the place of each kept element in students
RECURSIVE Filter(_, _, _)
Filter(list, known, from) ==
  IF from > Len(list) THEN <<>>
  ELSE IF PassesFilter(list[from], known)
  THEN <<[rollNumber |-> list[from].rollNumber,
          forceReprocess |-> list[from].forceReprocess,
          input |-> from]>> \o Filter(list, known, from + 1)
  ELSE Filter(list, known, from + 1)

\* a gate that admits every task
AlwaysStarts(active, c) == TRUE
\* pLimit(concurrency): a task starts while fewer than concurrency are active
CanStart(active, c) == active < c

\* a task that is queued again when its student was pushed to filteredStudents
RunsAgain(again, rejected) ==
  IF again THEN "queued" ELSE IF rejected THEN "rejected" ELSE "fulfilled"
\* how the promise of a task settles: rejected when an exception leaves its
\* catch block, fulfilled otherwise, also when the student was pushed to
\* filteredStudents (map has made its promises and visits no new element)
TaskEnd(again, rejected) == IF rejected THEN "rejected" ELSE "fulfilled"

\* getResult up to its first await, for a roll number
PathOf(roll, known, dir) ==
  IF roll \in known
  THEN IF dir[roll] = NoFile THEN "cacheThrows" ELSE "cache"
  ELSE "loop"

\* how the attempt loop of a getResult call may end: with a success (with or
\* without extracted data), with the attempts used up, or with the break on
\* the maintenance message
PipelineEnds == {"successData", "successNoData", "failed", "unavailable"}

\* the outcome objects pushed to results
BatchOutcome(task, ok, kind) == [task |-> task, success |-> ok, kind |-> kind]

\* an outcome that takes over the hard stop of an outcome pushed before it
OutcomeAfterHardStop(task, end) ==
  LET stopped == \E n \in 1..Len(batchResults) :
                   batchResults[n].kind = "pipeline" /\ batchResults[n].siteErrors IN
  [task |-> task, kind |-> "pipeline",
   success |-> ~stopped /\ end \in {"successData", "successNoData"},
   siteErrors |-> stopped \/ end = "unavailable"]
\* the outcome object getResult returns at the end of its attempt loop, of
\* which success and whether siteErrors is set are kept
PipelineOutcome(task, end) ==
  [task |-> task, kind |-> "pipeline",
   success |-> end \in {"successData", "successNoData"},
   siteErrors |-> end = "unavailable"]

Smallest(set) == CHOOSE k \in set : \A j \in set : k <= j

\* progressCallback(outcome) throws: "quiet" never does, "throws" does for
\* every outcome, "throwsOnSuccess" does for the outcomes with success set
Throws(callback, outcome) ==
  \/ callback = "throws"
  \/ callback = "throwsOnSuccess" /\ outcome.success

\* a call of batchProcess: an empty list is refused with an exception; when
\* the filter leaves nothing the call returns []; otherwise initWorkerPool(2)
\* is awaited
BatchProcess(list, c, callback) ==
  /\ scraper = "ready"
  /\ bPc = "idle"
  /\ students' = list
  /\ concurrency' = c
  /\ progressCallback' = callback
  /\ blacklistAtCall' = blacklist
  /\ UNCHANGED <<tPc, tPath, batchResults, retries, completedCount, callbackThrew,
                 poolEvents, tEnd>>
  /\ UNCHANGED scraperVars
  /\ UNCHANGED otherThanBatch
  /\ IF list = <<>>
     THEN /\ bPc' = "threw"
          /\ UNCHANGED <<filteredStudents, returnedList>>
     ELSE LET kept == Filter(list, blacklist, 1) IN
          /\ filteredStudents' = kept
          /\ IF kept = <<>>
             THEN /\ bPc' = "returned"
                  /\ returnedList' = <<>>
             ELSE /\ bPc' = "init"
                  /\ UNCHANGED returnedList

\* the slots initWorkerPool(n) pushes when every engine is created: n idle
\* slots with new engines
NewSlots(n, created) == [k \in 1..n |-> [worker |-> created + k, busy |-> FALSE]]

\* the tasks that have not ended
Unfinished(tasks) == {k \in DOMAIN tasks : tasks[k] \in {"queued", "running"}}

\* an initialization or a teardown of the pool, by Main or by the task idx
PoolEvent(op, by, tasks) ==
  [op |-> op, by |-> by, unfinished |-> Cardinality(Unfinished(tasks))]

\* initWorkerPool(n), summed up by how it ends on an uninitialized pool: the
\* slots are pushed and the pool is marked initialized
PoolInitialized(n, by, tasks) ==
  /\ workerPool' = workerPool \o NewSlots(n, nextWorker)
  /\ isPoolInitialized' = TRUE
  /\ nextWorker' = nextWorker + n
  /\ poolEvents' = Append(poolEvents, PoolEvent("init", by, tasks))

\* initWorkerPool(2) settles: its failure ends the call with the exception;
\* otherwise map creates one limited task per filtered student and the first
\* ones start, each with its getResult call
PoolReady(ok) ==
  /\ bPc = "init"
  /\ UNCHANGED <<students, concurrency, progressCallback, filteredStudents,
                 batchResults, retries, completedCount, returnedList,
                 blacklistAtCall, callbackThrew>>
  /\ UNCHANGED scraperVars
  /\ UNCHANGED otherThanBatchAndPool
  /\ IF ok
     THEN PoolInitialized(DefaultPoolSize, Main, <<>>)
     ELSE UNCHANGED <<poolFields, poolEvents>>
  /\ initCalls' = initCalls + 1
  /\ UNCHANGED disposed
  /\ IF ok
     THEN LET n == Len(filteredStudents)
              starts(k) == CanStart(k - 1, concurrency) IN
          /\ bPc' = "running"
          /\ tEnd' = [k \in 1..n |-> "none"]
          /\ tPc' = [k \in 1..n |-> IF starts(k) THEN "running" ELSE "queued"]
          /\ tPath' = [k \in 1..n |->
                         IF starts(k)
                         THEN PathOf(filteredStudents[k].rollNumber, blacklist, files)
                         ELSE "none"]
     ELSE /\ bPc' = "threw"
          /\ UNCHANGED <<tPc, tPath, tEnd>>

\* the getResult call of a running task settles and the rest of the task runs:
\* the outcome is counted, pushed and reported; an exception (of getResult or
\* of the callback) is caught, counted in retries and, below maxRetries, the
\* student is pushed to filteredStudents, otherwise a failed outcome is pushed
\* and reported; the limit then starts the next queued task, and Promise.all
\* settles when this was the last task or the first one to reject
TaskSettles(idx, pipeline) ==
  /\ bPc \in {"running", "cleanupThrow", "threw"}
  /\ idx \in DOMAIN tPc
  /\ tPc[idx] = "running"
  /\ UNCHANGED <<students, concurrency, progressCallback, returnedList,
                 blacklistAtCall, poolEvents>>
  /\ UNCHANGED <<scraper, maxRetries>>
  /\ UNCHANGED otherThanBatch
  /\ LET student == filteredStudents[idx]
         roll == student.rollNumber
         looped == tPath[idx] = "loop"
         threw == tPath[idx] = "cacheThrows"
         succeeded == looped /\ pipeline \in {"successData", "successNoData"}
         known == IF succeeded THEN BlacklistPush(blacklist, roll) ELSE blacklist
         dir == IF looped /\ pipeline = "successData"
                THEN [files EXCEPT ![roll] = "data"] ELSE files
         result == IF looped THEN PipelineOutcome(idx, pipeline)
                   ELSE BatchOutcome(idx, TRUE, "cached")
         failedResult == BatchOutcome(idx, FALSE, "failedResult")
         throws == ~threw /\ Throws(progressCallback, result)
         caught == threw \/ throws
         pushed == IF threw THEN batchResults ELSE Append(batchResults, result)
         counted == [retries EXCEPT ![roll] = IF caught THEN @ + 1 ELSE @]
         again == caught /\ counted[roll] < maxRetries
         givenUp == caught /\ ~(counted[roll] < maxRetries)
         rejected == givenUp /\ Throws(progressCallback, failedResult)
         active == {k \in DOMAIN tPc : tPc[k] = "running"} \ {idx}
         queued == {k \in DOMAIN tPc : tPc[k] = "queued"}
         starting == IF queued # {} /\ CanStart(Cardinality(active), concurrency)
                     THEN {Smallest(queued)} ELSE {}
         ended == [tPc EXCEPT ![idx] = TaskEnd(again, rejected)]
         after == [k \in DOMAIN tPc |-> IF k \in starting THEN "running" ELSE ended[k]]
     IN
     /\ blacklist' = known
     /\ files' = dir
     /\ batchResults' = IF givenUp THEN Append(pushed, failedResult) ELSE pushed
     /\ retries' = counted
     /\ completedCount' = completedCount + (IF threw THEN 0 ELSE 1)
                                         + (IF caught THEN 1 ELSE 0)
     /\ filteredStudents' = IF again THEN Append(filteredStudents, student)
                            ELSE filteredStudents
     /\ callbackThrew' = IF throws \/ rejected
                         THEN callbackThrew \cup {idx} ELSE callbackThrew
     /\ tPc' = after
     /\ tEnd' = [tEnd EXCEPT ![idx] = IF looped THEN pipeline ELSE "none"]
     /\ tPath' = [k \in DOMAIN tPath |->
                    IF k \in starting
                    THEN PathOf(filteredStudents[k].rollNumber, known, dir)
                    ELSE tPath[k]]
     /\ bPc' = IF bPc # "running" THEN bPc
               ELSE IF rejected THEN "cleanupThrow"
               ELSE IF \A k \in DOMAIN after : after[k] = "fulfilled"
               THEN "cleanupReturn"
               ELSE "running"

\* processCaptcha of a running pipeline finds the pool uninitialized and
\* awaits initWorkerPool() itself (on an initialized pool its test changes
\* nothing, and the step is part of the getResult call that TaskSettles ends)
TaskCaptcha(idx) ==
  /\ idx \in DOMAIN tPc
  /\ tPc[idx] = "running"
  /\ tPath[idx] = "loop"
  /\ ~isPoolInitialized
  /\ PoolInitialized(DefaultPoolSize, idx, tPc)
  /\ UNCHANGED poolHistory
  /\ UNCHANGED <<bPc, students, concurrency, progressCallback, filteredStudents,
                 tPc, tPath, batchResults, retries, completedCount, returnedList,
                 blacklistAtCall, callbackThrew, tEnd>>
  /\ UNCHANGED scraperVars
  /\ UNCHANGED otherThanBatchAndPool

\* captchaSolver.cleanup() of the finally block settles: the engines of the
\* pool are terminated, the pool is emptied and marked uninitialized, and the
\* call returns results, or throws the error of the rejected task
CleanupSettles ==
  /\ bPc \in {"cleanupReturn", "cleanupThrow"}
  /\ bPc' = IF bPc = "cleanupReturn" THEN "returned" ELSE "threw"
  /\ returnedList' = IF bPc = "cleanupReturn" THEN batchResults ELSE returnedList
  /\ workerPool' = <<>>
  /\ isPoolInitialized' = FALSE
  /\ disposed' = disposed \cup Engines(workerPool)
  /\ poolEvents' = Append(poolEvents, PoolEvent("cleanup", Main, tPc))
  /\ UNCHANGED <<nextWorker, initCalls>>
  /\ UNCHANGED <<students, concurrency, progressCallback, filteredStudents,
                 tPc, tPath, batchResults, retries, completedCount,
                 blacklistAtCall, callbackThrew, tEnd>>
  /\ UNCHANGED scraperVars
  /\ UNCHANGED otherThanBatchAndPool

InitBatch ==
  /\ bPc = "idle"
  /\ students = <<>>
  /\ concurrency = 1
  /\ progressCallback = "quiet"
  /\ filteredStudents = <<>>
  /\ tPc = <<>>
  /\ tPath = <<>>
  /\ batchResults = <<>>
  /\ retries = [r \in Rolls |-> 0]
  /\ completedCount = 0
  /\ returnedList = <<>>
  /\ blacklistAtCall = {}
  /\ callbackThrew = {}
  /\ poolEvents = <<>>
  /\ tEnd = <<>>

NextBatch ==
  \/ /\ scraper = "none"
     /\ \E m \in 0..MaxRetriesLimit, dir \in [Rolls -> {NoFile, "stored"}] :
          NewScraper(m, dir)
  \/ /\ bPc = "idle"
     /\ \E list \in StudentLists, c \in 1..MaxConcurrency,
           callback \in {"quiet", "throws"} : BatchProcess(list, c, callback)
  \/ \E ok \in BOOLEAN : PoolReady(ok)
  \/ \E idx \in 1..NStudents, pipeline \in PipelineEnds :
       TaskSettles(idx, pipeline)
  \/ \E idx \in 1..NStudents : TaskCaptcha(idx)
  \/ CleanupSettles

\* batchProcess called with a progress callback that throws for some outcomes
\* and returns for others
NextCallback ==
  \/ NextBatch
  \/ /\ bPc = "idle"
     /\ \E list \in StudentLists, c \in 1..MaxConcurrency :
          BatchProcess(list, c, "throwsOnSuccess")

InitNetwork == remote = "answers"

Init ==
  /\ InitPool /\ InitVote /\ InitFetch /\ InitSubmit /\ InitResult /\ InitBatch
  /\ InitNetwork

SpecPool == Init /\ [][NextPool]_vars

SpecVote == Init /\ [][NextVote]_vars

SpecFetch == Init /\ [][NextFetch]_vars

SpecSubmit == Init /\ [][NextSubmit]_vars

SpecResult == Init /\ [][NextResult]_vars

SpecBatch == Init /\ [][NextBatch]_vars

SpecCallback == Init /\ [][NextCallback]_vars

\* the awaited calls of an attempt settle
Settles ==
  \/ \E fetched \in BOOLEAN : WorkflowSettles(fetched)
  \/ \E solved \in BOOLEAN : CaptchaSettles(solved)
  \/ \E r \in SubmissionResults : SubmitSettles(r)

FairSpecResult == Init /\ [][NextResult]_vars /\ WF_vars(Settles)

(***************************************************************************)
(* getResult with a remote that may stop answering.  Each awaited call of  *)
(* an attempt waits for a request to the remote: the three requests of     *)
(* fetchInitialData, the download of the CAPTCHA image in processCaptcha,  *)
(* the POST of submitFormWithCaptcha.  Every one is a fetch(...) without a *)
(* timeout or an abort signal, and no timer races it: the awaited call     *)
(* settles when the remote answers, and only then.                         *)
(***************************************************************************)
\* the remote answers the pending request and the awaited call settles
Answered ==
  /\ remote = "answers"
  /\ Settles

\* the remote stops answering while a request of the attempt is pending
RemoteStalls ==
  /\ gPc \in {"workflow", "captcha", "submit"}
  /\ remote = "answers"
  /\ remote' = "stalled"
  /\ UNCHANGED <<poolVars, voteVars, fetchVars, submitVars, scraperVars,
                 resultVars, batchVars, sampleVars>>

NextStall ==
  \/ /\ scraper = "none"
     /\ \E m \in 0..MaxRetriesLimit, dir \in [Rolls -> {NoFile, "stored"}] :
          NewScraper(m, dir)
  \/ \E roll \in Rolls : GetResult(roll)
  \/ Answered
  \/ RemoteStalls

SpecStall == Init /\ [][NextStall]_vars

\* a request that can be answered is answered in the end
FairSpecStall == Init /\ [][NextStall]_vars /\ WF_vars(Answered)

(***************************************************************************)
(* The same program under the scheduling of the event loop: a call whose   *)
(* recognition, validation or engine creation is pending is resumed, and   *)
(* the 100 ms timer of a polling getAvailableWorker keeps firing.          *)
(***************************************************************************)
\* a step of a call that is under way: a poll that finds a slot, a validation,
\* a recognition that settles, an iteration of initWorkerPool
Progress ==
  \/ \E t \in Tasks : Poll(t)
  \/ \E t \in Tasks, valid \in BOOLEAN : Validate(t, valid)
  \/ \E t \in Tasks, o \in {"ok", "failRetry", "failNoRetry"} : Recognize1(t, o)
  \/ \E t \in Tasks : Recognize2(t)
  \/ \E p \in Procs, o \in {"ok", "createFail", "initFail"} : InitWorkerPoolStep(p, o)

\* the entry points await initWorkerPool before they start any pipeline
\* (index.js main, batchProcess), so the calls meet an initialized pool
BatchSolveCaptcha(t, hasImage) ==
  /\ t <= NBatchCalls
  /\ pc[Main] = "ready"
  /\ SolveCaptcha(t, hasImage)

NextBatchPool ==
  \/ \E n \in 1..MaxPoolSize : MainInit(n)
  \/ \E t \in Tasks, hasImage \in BOOLEAN : BatchSolveCaptcha(t, hasImage)
  \/ Progress
  \/ Cleanup

FairSpecPool == Init /\ [][NextBatchPool]_vars /\ WF_vars(Progress)

\* the entry points call initWorkerPool one after the other: index.js main
\* first, then batchProcess, while the pool may already be in use
NextLifecycle ==
  \/ NextBatchPool
  \/ \E n \in 1..MaxPoolSize : InitAgain(n)

SpecLifecycle == Init /\ [][NextLifecycle]_vars

\* worker.loadLanguage / initialize / setParameters rejects: the inner catch
\* terminates the engine, undoes the i++ with i-- and waits one second.  The
\* code counts nothing here, so neither does the action.
InitFails(p) ==
  /\ pc[p] = "init"
  /\ Becomes([Now EXCEPT !.pc[p] = "retryWait"])
  /\ UNCHANGED <<nextWorker, initFailures>>
  /\ UNCHANGED poolHistory
  /\ UNCHANGED otherThanPool

\* the one second timer fires and the loop runs the same i again
RetryTimer(p) ==
  /\ pc[p] = "retryWait"
  /\ Becomes([Now EXCEPT !.pc[p] = "init"])
  /\ UNCHANGED <<nextWorker, initFailures>>
  /\ UNCHANGED poolHistory
  /\ UNCHANGED otherThanPool

InitProgress ==
  \/ Progress
  \/ \E p \in Procs : InitFails(p)
  \/ \E p \in Procs : RetryTimer(p)

NextInit ==
  \/ NextBatchPool
  \/ \E p \in Procs : InitFails(p)
  \/ \E p \in Procs : RetryTimer(p)

\* every awaited engine call and every timer of the initialization settles
FairSpecInit == Init /\ [][NextInit]_vars /\ WF_vars(InitProgress)

\* releaseWorker({ worker: w }) called on the solver from outside solveCaptcha,
\* with an engine of the pool or with one the pool does not hold
ReleaseCall(w) ==
  /\ w \notin released
  /\ Cardinality(released) < NReleaseCalls
  /\ workerPool' = ReleaseWorker(workerPool, w)
  /\ released' = released \cup {w}
  /\ UNCHANGED <<isPoolInitialized, nextWorker, ocrQueue, activeCount, pc, held,
                 initI, initN, initFailures, samples>>
  /\ UNCHANGED poolHistory
  /\ UNCHANGED otherThanPoolAndSamples

NextRelease ==
  \/ NextBatchPool
  \/ \E w \in 1..(nextWorker + 1) : ReleaseCall(w)

SpecRelease == Init /\ [][NextRelease]_vars

(***************************************************************************)
(* The samples of solveMultipleCaptchas: downloadCaptcha writes the image  *)
(* to a temporary file and solveCaptcha is called with it in the same turn *)
(* of the event loop; index.js main runs cleanupTempFiles on a timer while *)
(* the batch is processed.                                                 *)
(***************************************************************************)
\* what the remote sends for a CAPTCHA image: an image longer than 100 bytes,
\* an image of exactly 100 bytes, or something validateImageFile rejects
Images == {"png", "png100", "junk"}

\* validateImageFile(imageData.path): the file exists, has at least 100 bytes
\* and the header of an image
ValidateImageFile(sm) == sm.file = "written" /\ sm.image \in {"png", "png100"}

\* if (imageData.buffer && imageData.buffer.length > 100)
BufferAllowsRetry(image) == image = "png"

\* imageData = await this.downloadCaptcha(captchaUrl);
\* result = await this.solveCaptcha(imageData), up to its first await
SampleCall(t, image) ==
  /\ t <= NBatchCalls
  /\ pc[t] = "idle"
  /\ pc[Main] = "ready"
  /\ Becomes(Called(Now, t, TRUE))
  /\ samples' = [samples EXCEPT ![t] = [image |-> image, file |-> "written",
                                        recognitions |-> 0, result |-> "pending"]]
  /\ UNCHANGED <<nextWorker, initFailures, released>>
  /\ UNCHANGED poolHistory
  /\ UNCHANGED otherThanPoolAndSamples

\* the call has its slot: validateImageFile, then the first worker.recognize
\* is started, or the call ends with ''
SampleValidate(t) ==
  /\ pc[t] = "holding"
  /\ LET valid == ValidateImageFile(samples[t]) IN
     /\ Becomes(Validated(Now, t, valid))
     /\ samples' = IF valid THEN [samples EXCEPT ![t].recognitions = 1]
                   ELSE [samples EXCEPT ![t].result = "failed"]
  /\ UNCHANGED <<nextWorker, initFailures, released>>
  /\ UNCHANGED poolHistory
  /\ UNCHANGED otherThanPoolAndSamples

\* the first worker.recognize settles
SampleRecognize1(t, ok) ==
  /\ pc[t] = "recognize1"
  /\ LET outcome == IF ok THEN "ok"
                    ELSE IF BufferAllowsRetry(samples[t].image) THEN "failRetry"
                    ELSE "failNoRetry"
     IN
     /\ Becomes(Recognized1(Now, t, outcome))
     /\ samples' = CASE outcome = "ok" ->
                          [samples EXCEPT ![t].result = "recognized"]
                     [] outcome = "failRetry" ->
                          [samples EXCEPT ![t].recognitions = 2]
                     [] outcome = "failNoRetry" ->
                          [samples EXCEPT ![t].result = "failed"]
  /\ UNCHANGED <<nextWorker, initFailures, released>>
  /\ UNCHANGED poolHistory
  /\ UNCHANGED otherThanPoolAndSamples

\* the second worker.recognize settles
SampleRecognize2(t, ok) ==
  /\ pc[t] = "recognize2"
  /\ Becomes(Finish(Now, t))
  /\ samples' = [samples EXCEPT ![t].result = IF ok THEN "recognized" ELSE "failed"]
  /\ UNCHANGED <<nextWorker, initFailures, released>>
  /\ UNCHANGED poolHistory
  /\ UNCHANGED otherThanPoolAndSamples

\* the setInterval of index.js main calls cleanupTempFiles.  A timer callback
\* runs between two turns of the event loop; a call that has just been given
\* its slot validates the file in the same turn.
TempFilesTimer ==
  /\ \A t \in Tasks : pc[t] # "holding"
  /\ \E t \in Tasks : samples[t].file = "written"
  /\ samples' = CleanupTempFiles(samples)
  /\ UNCHANGED released
  /\ UNCHANGED poolVars
  /\ UNCHANGED otherThanPoolAndSamples

NextSample ==
  \/ \E n \in 1..MaxPoolSize : MainInit(n)
  \/ \E p \in Procs, o \in {"ok", "createFail", "initFail"} : InitWorkerPoolStep(p, o)
  \/ \E t \in Tasks, image \in Images : SampleCall(t, image)
  \/ \E t \in Tasks : Poll(t)
  \/ \E t \in Tasks : SampleValidate(t)
  \/ \E t \in Tasks, ok \in BOOLEAN : SampleRecognize1(t, ok)
  \/ \E t \in Tasks, ok \in BOOLEAN : SampleRecognize2(t, ok)
  \/ TempFilesTimer
  \/ Cleanup

SpecSample == Init /\ [][NextSample]_vars

(***************************************************************************)
(* Properties of the worker pool.                                          *)
(***************************************************************************)
Holders == {t \in Tasks : held[t] # NoWorker}
InFlight == {t \in Tasks : pc[t] \in {"recognize1", "recognize2"}}

\* C1: no slot is held by two solveCaptcha calls at the same time, and a slot
\* that a call holds is a slot of the pool marked busy (so that no other
\* acquirer is given it before its holder released it).
C1_NoSlotHeldTwice ==
  /\ \A t1, t2 \in Tasks :
       (t1 # t2 /\ held[t1] # NoWorker) => held[t1] # held[t2]
  /\ \A t \in Holders :
       \E k \in 1..Len(workerPool) :
         workerPool[k].worker = held[t] /\ workerPool[k].busy

\* C1 witness: two calls hold the two slots of the pool at the same time and a
\* third call is kept back by the OCR queue.
C1_Witness ==
  /\ Cardinality(Holders) = 2
  /\ Len(workerPool) = 2
  /\ \E t \in Tasks : pc[t] = "queued"

\* C2: with more acquirers than slots, the calls holding a slot are never more
\* than the slots of the pool, and every call that is polling for a slot
\* eventually holds one.
C2_BoundedAndServed ==
  /\ [](Cardinality(Holders) <= Len(workerPool))
  /\ \A t \in Tasks : (pc[t] = "waiting") ~> (held[t] # NoWorker)

\* C2 witness: a pool of one slot, held, and another call polling for it.
C2_Witness ==
  /\ Len(workerPool) = 1
  /\ Cardinality(Holders) = 1
  /\ \E t \in Tasks : pc[t] = "waiting"

AB3D == <<"A", "B", "3", "D">>
X9Y2 == <<"X", "9", "Y", "2">>

Range(seq) == {seq[k] : k \in 1..Len(seq)}
VotesIn(seq, text) == Cardinality({k \in 1..Len(seq) : seq[k] = text})
Votes(text) == VotesIn(results, text)
MaxVotesIn(seq) ==
  IF seq = <<>> THEN 0
  ELSE CHOOSE n \in 0..Len(seq) :
         /\ \E text \in Range(seq) : VotesIn(seq, text) = n
         /\ \A text \in Range(seq) : VotesIn(seq, text) <= n
ReachedThreshold == \E text \in Range(results) : Votes(text) >= earlyMatchCount

\* C4: when a string reaches earlyMatchCount accepted votes, the call returns
\* that string, and no sample is taken after the one that reached the
\* threshold (the loop index and the accepted samples never change again).
C4_EarlyStopReturnsWinner ==
  /\ [](vPc = "done" =>
          \A text \in Range(results) :
            Votes(text) >= earlyMatchCount => mostCommonResult = text)
  /\ [][(vPc # "idle" /\ ReachedThreshold) => UNCHANGED <<i, results, vPc>>]_vars
  /\ [](vPc = "loop" => ~ReachedThreshold)

\* C4 witness: with a threshold of 2 the call ended on the second vote of a
\* string, after a vote for another string, with a sample left untaken.
C4_Witness ==
  /\ vPc = "done"
  /\ earlyMatchCount = 2
  /\ Votes(mostCommonResult) = 2
  /\ Len(results) = 3
  /\ i + 1 < count

\* C5: the leader changes only to a string whose vote count is strictly
\* greater than every count before the sample; for the accepted samples
\* AB3D, AB3D, X9Y2, X9Y2 with earlyMatchCount 3 and count 4 the loop runs to
\* its end and the call returns AB3D.
C5_LeaderOnlyOnStrictlyMore ==
  /\ [][mostCommonResult' # mostCommonResult =>
          VotesIn(results', mostCommonResult') > MaxVotesIn(results)]_vars
  /\ []((vPc = "done" /\ count = 4 /\ earlyMatchCount = 3
           /\ results = <<AB3D, AB3D, X9Y2, X9Y2>>)
          => (mostCommonResult = AB3D /\ i = count))

\* C5 witness: the four samples of the example were accepted in that order and
\* the call returned.
C5_Witness ==
  /\ vPc = "done"
  /\ count = 4
  /\ earlyMatchCount = 3
  /\ results = <<AB3D, AB3D, X9Y2, X9Y2>>

\* C6: every key of the vote table has 4 to 6 characters, all of [A-Z0-9]; a
\* returned text that is outside that length band adds no vote.
C6_OnlyFilteredKeys ==
  /\ \A key \in DOMAIN counts :
       /\ Len(key) \in 4..6
       /\ \A k \in 1..Len(key) : key[k] \in Allowed
  /\ \A text \in Range(results) : text \in DOMAIN counts
  /\ (lastResult # <<>> /\ Len(lastResult) \notin 4..6) =>
       lastResult \notin DOMAIN counts

\* C6 witness: the latest sample was normalized to three characters and was
\* dropped, after a sample with a blank and a line end was normalized and counted.
C6_Witness ==
  /\ lastResult = <<"A", "B", "3">>
  /\ AB3D \in DOMAIN counts

\* C7: the call returns '' exactly when no sample was accepted, and otherwise a
\* string that has the largest number of votes.
C7_EmptyIffNoAccepted ==
  vPc = "done" =>
    /\ (mostCommonResult = <<>>) <=> (results = <<>>)
    /\ results # <<>> =>
         /\ mostCommonResult \in Range(results)
         /\ Votes(mostCommonResult) = MaxVotesIn(results)

\* C7 witness: the samples ran out and the returned string has a single vote.
C7_Witness ==
  /\ vPc = "done"
  /\ i = count
  /\ mostCommonResult # <<>>
  /\ Votes(mostCommonResult) = 1
  /\ Len(results) = 2

(***************************************************************************)
(* Properties of fetchInitialData.                                         *)
(***************************************************************************)
\* the redirect target of call c names the results form
RedirectMatches(c) ==
  /\ location[c] # NoLocation
  /\ \E k \in 1..Len(location[c]) : location[c][k] = "BErslt.aspx"

Outcome(r) ==
  CASE r.kind = "thrown" -> "thrown"
    [] r.kind = "pending" -> "pending"
    [] r.success -> "success"
    [] r.error = "Invalid CAPTCHA code entered" -> "invalidCaptcha"
    [] r.error = "Roll number does not exist" -> "recordNotFound"
    [] r.error = "Site is under maintenance" -> "serviceUnavailable"
    [] r.error = "Unexpected response from server" -> "unrecognized"
    [] OTHER -> "otherFailure"

ClassificationOutcomes ==
  {"invalidCaptcha", "recordNotFound", "serviceUnavailable", "success",
   "unrecognized"}

\* the response text of the latest call was classified
Classified == sPc = "done" /\ html # NoHtml /\ sFault = "none"

HasInvalidCaptcha == "Invalid Captcha Code" \in html
HasRecordNotFound == "Roll No does not exist" \in html
HasMaintenance == "Site Under Construction" \in html \/ "under maintenance" \in html
HasResult == "Result" \in html /\ "Grade" \in html

\* C9: every response text gets exactly one of the five outcomes, in the
\* priority order invalid CAPTCHA, record not found, service unavailable,
\* success; a text that matches none of them is unrecognized.
C9_ClassifierTotalAndOrdered ==
  Classified =>
    LET o == Outcome(sRet) IN
    /\ o \in ClassificationOutcomes
    /\ o = "invalidCaptcha" <=> HasInvalidCaptcha
    /\ o = "recordNotFound" <=> (~HasInvalidCaptcha /\ HasRecordNotFound)
    /\ o = "serviceUnavailable" <=>
         (~HasInvalidCaptcha /\ ~HasRecordNotFound /\ HasMaintenance)
    /\ o = "success" <=>
         (~HasInvalidCaptcha /\ ~HasRecordNotFound /\ ~HasMaintenance /\ HasResult)
    /\ o = "unrecognized" <=>
         (~HasInvalidCaptcha /\ ~HasRecordNotFound /\ ~HasMaintenance /\ ~HasResult)

\* a text with both the unknown-roll-number message and the maintenance banner
\* (and the result markers) was classified as record not found
C9_Witness ==
  /\ Classified
  /\ {"Roll No does not exist", "under maintenance", "Result", "Grade"} \subseteq html
  /\ "Invalid Captcha Code" \notin html
  /\ Outcome(sRet) = "recordNotFound"

\* C10 as stated: a classified response gives a tagged result without a throw,
\* and a transport-level failure, and nothing else, leaves the call as a
\* thrown error.
C10_TransportFailurePropagates ==
  sPc = "done" =>
    /\ Classified => Outcome(sRet) \in ClassificationOutcomes
    /\ sFault = "transport" <=> sRet.kind = "thrown"

\* C10: submitFormWithCaptcha never throws.  A classified response gives one of
\* the five tagged results; an exception raised inside the call (the request or
\* its body failing, the result file not written) is returned as a failure
\* object whose error is the exception's message, which is none of the five
\* outcomes; so is a call without CAPTCHA data.
C10_FailuresAreReturned ==
  sPc = "done" =>
    /\ sRet.kind = "returned"
    /\ Classified => Outcome(sRet) \in ClassificationOutcomes
    /\ sFault # "none" =>
         /\ sRet = Returned(FALSE, FaultMessage(sFault), "none")
         /\ Outcome(sRet) = "otherFailure"
    /\ (sFault = "none" /\ html = NoHtml) =>
         sRet = Returned(FALSE, "No CAPTCHA data provided", "none")

\* the request of the second call failed on the network and the call ended
\* with a returned failure
C10_Witness ==
  /\ sPc = "done"
  /\ sCalls = 2
  /\ sFault = "transport"
  /\ sRet.kind = "returned"
  /\ ~sRet.success
  /\ sRet.error = FaultMessage("transport")

(***************************************************************************)
(* Properties of getResult.                                                *)
(***************************************************************************)
Maintenance == "Site is under maintenance"
\* the latest call went through the attempt loop (it did not take the cached
\* result)
LoopPath == gCalls > 0 /\ attempt > 0
CachePath == gCalls > 0 /\ attempt = 0
LastError == errors[Len(errors)]
Retriable == {"Invalid CAPTCHA code entered", "Roll number does not exist",
              "Unexpected response from server"}

\* C11: once the submission of attempt k has come back as the maintenance
\* failure, the call is over: it returned success = false, k attempts were
\* run and none after it, whatever maxRetries is.
C11_HardStopOnMaintenance ==
  \A n \in 1..Len(errors) :
    (errors[n].step = 3 /\ errors[n].error = Maintenance) =>
      /\ n = Len(errors)
      /\ gPc = "done"
      /\ gRet.kind = "returned"
      /\ ~gRet.success
      /\ attemptsRun = errors[n].attempt
      /\ gRet.attempts = errors[n].attempt

\* the second of three allowed attempts met the maintenance page
C11_Witness ==
  /\ gPc = "done"
  /\ maxRetries = 3
  /\ attemptsRun = 2
  /\ Len(errors) = 2
  /\ errors[1].error = "Invalid CAPTCHA code entered"
  /\ errors[2].error = Maintenance
  /\ ~gRet.success

\* C12: after a submission that came back as invalid CAPTCHA, unknown roll
\* number or unexpected response, with attempts left, the next attempt begins
\* with a new fetchInitialData call; every submission carries the context
\* fetched and the CAPTCHA text solved in its own attempt, and no context is
\* submitted twice.
C12_FreshContextPerAttempt ==
  /\ [](\A n \in 1..Len(submissions) :
          /\ submissions[n].jsonData =
               [call |-> gCalls, fetch |-> submissions[n].attempt]
          /\ submissions[n].captchaText = submissions[n].attempt
          /\ \A k \in 1..Len(submissions) :
               submissions[k].jsonData = submissions[n].jsonData => k = n)
  /\ [](gPc \in {"captcha", "submit"} =>
          /\ scrapedData = [call |-> gCalls, fetch |-> attempt]
          /\ workflowCalls = attempt)
  /\ [][(gPc = "submit" /\ Len(errors') > Len(errors)
           /\ errors'[Len(errors')].error \in Retriable
           /\ attempt < maxRetries)
          => (/\ gPc' = "workflow"
              /\ attempt' = attempt + 1
              /\ workflowCalls' = workflowCalls + 1
              /\ scrapedData' = NoContext
              /\ captchaResult' = NoCaptcha)]_vars

\* the second attempt, begun after an invalid CAPTCHA, has made its submission
C12_Witness ==
  /\ gPc = "submit"
  /\ attempt = 2
  /\ Len(submissions) = 2
  /\ errors = <<[attempt |-> 1, step |-> 3, error |-> "Invalid CAPTCHA code entered"]>>

C14_AlwaysReturnsOutcome ==
  gPc = "done" => gRet.kind = "returned"

\* C15: the attempts count of the returned outcome is the number of attempts
\* that were run.
C15_AttemptsCountsAttemptsRun ==
  (gPc = "done" /\ LoopPath) => gRet.attempts = attemptsRun

\* C16: a call for a roll number on the blacklist returns a successful outcome
\* with the payload of its result file, without a fetchInitialData call.
C16_CacheHitReturnsPersisted ==
  (gPc = "done" /\ CachePath) =>
    /\ gRet.kind = "returned"
    /\ gRet.success
    /\ gRet.data = files[gRoll]
    /\ gRet.data \in Payloads
    /\ workflowCalls = 0

(***************************************************************************)
(* Properties of batchProcess.                                             *)
(***************************************************************************)
Running == {k \in DOMAIN tPc : tPc[k] = "running"}
\* the record at a place of students was on the blacklist when batchProcess
\* was called
CachedAtCall(at) == students[at].rollNumber \in blacklistAtCall
\* the places in a list of outcomes that belong to task idx
OutcomesOf(list, idx) == {n \in 1..Len(list) : list[n].task = idx}
\* the tasks made for the record at a place of students
TasksOf(at) == {k \in DOMAIN tPc : filteredStudents[k].input = at}

\* C17: a record that was on the blacklist at the call gets no task when
\* forceReprocess is unset, and when it is set the getResult call of its task
\* goes through the attempt loop, beginning with fetchInitialData.
C17_ForcedRecordIsReprocessed ==
  \A at \in 1..Len(students) :
    CachedAtCall(at) =>
      /\ ~students[at].forceReprocess => TasksOf(at) = {}
      /\ students[at].forceReprocess =>
           \A k \in TasksOf(at) : tPath[k] \in {"none", "loop"}

\* C18: the tasks that run at once (each with its getResult call) are never
\* more than concurrency.
C18_AtMostConcurrencyRunning ==
  Cardinality(Running) <= concurrency

\* with concurrency 1 and two students to process, one task runs and the other
\* waits in the queue of the limit
C18_Witness ==
  /\ bPc = "running"
  /\ concurrency = 1
  /\ \E k, j \in DOMAIN tPc : tPc[k] = "running" /\ tPc[j] = "queued"

\* C19: when batchProcess has returned, every task whose getResult call threw
\* has an outcome in the returned list (of a run made again, or the failed
\* outcome recorded at the retry bound).
C19_EscapedExceptionEndsInOutcome ==
  bPc = "returned" =>
    \A k \in DOMAIN tPath :
      tPath[k] = "cacheThrows" => OutcomesOf(returnedList, k) # {}

DistinctRolls ==
  \A at, other \in 1..Len(students) :
    students[at].rollNumber = students[other].rollNumber => at = other

\* C39: for a list of different roll numbers, the list batchProcess returns
\* has at most one outcome for each of them.
C39_OneOutcomePerIdentifier ==
  (bPc = "returned" /\ DistinctRolls) =>
    \A k \in DOMAIN tPc : Cardinality(OutcomesOf(returnedList, k)) <= 1

\* the initializations and the teardowns of the pool made since the call
EventsOf(op) == {n \in 1..Len(poolEvents) : poolEvents[n].op = op}

\* C21: during a batchProcess run the pool is initialized once, by
\* batchProcess and before any task exists; it is torn down at most once, by
\* batchProcess and when no task is left unfinished, and exactly once when the
\* run has ended; no task initializes or tears down the pool.
C21_PoolLifecycleOwnedByBatch ==
  /\ \A n \in 1..Len(poolEvents) : poolEvents[n].by = Main
  /\ Cardinality(EventsOf("init")) <= 1
  /\ Cardinality(EventsOf("cleanup")) <= 1
  /\ tPc # <<>> => (poolEvents # <<>> /\ poolEvents[1].op = "init")
  /\ \A n \in EventsOf("cleanup") : poolEvents[n].unfinished = 0
  /\ (tPc # <<>> /\ bPc \in {"returned", "threw"}) =>
       Cardinality(EventsOf("cleanup")) = 1

\* an exception was raised in task idx: by its getResult call, or by the
\* progress callback
Raised(idx) == tPath[idx] = "cacheThrows" \/ idx \in callbackThrew
\* the getResult call of task idx returned an outcome
ReachedOutcome(idx) ==
  tPc[idx] \in {"fulfilled", "rejected"} /\ tPath[idx] \in {"loop", "cache"}

\* C22: when the run has ended and an exception was raised in one task, every
\* other task has run its getResult call to an outcome, and batchProcess has
\* returned a list that holds that outcome.
C22_SiblingsKeepTheirOutcomes ==
  (bPc \in {"returned", "threw"} /\ tPc # <<>> /\ Unfinished(tPc) = {}) =>
    \A k \in DOMAIN tPc :
      Raised(k) =>
        \A j \in DOMAIN tPc \ {k} :
          tPath[j] # "cacheThrows" =>
            /\ ReachedOutcome(j)
            /\ bPc = "returned"
            /\ OutcomesOf(returnedList, j) # {}

\* the tasks whose getResult call ended with the break on the maintenance
\* message
HardStopped == {k \in DOMAIN tEnd : tEnd[k] = "unavailable"}
Queued == {k \in DOMAIN tPc : tPc[k] = "queued"}

\* C23: once the pipeline of one task has ended with the maintenance hard
\* stop, the other tasks go on as before: a queued task is still admitted as
\* soon as a place is free (while tasks are queued, concurrency tasks run), a
\* running pipeline can still end in each of the ways a pipeline ends, and
\* the outcome pushed for a task is the one of the end of its own pipeline.
C23_HardStopLeavesOthersAlone ==
  HardStopped # {} =>
    /\ Queued # {} => Cardinality(Running) = concurrency
    /\ \A k \in Running : tPath[k] = "loop" =>
         \A end \in PipelineEnds : ENABLED TaskSettles(k, end)
    /\ \A n \in 1..Len(batchResults) :
         batchResults[n].kind = "pipeline" =>
           LET own == tEnd[batchResults[n].task] IN
           /\ batchResults[n].success = (own \in {"successData", "successNoData"})
           /\ batchResults[n].siteErrors = (own = "unavailable")

\* with concurrency 1, the first pipeline ended with the hard stop while the
\* second task was queued; the second one then ran and succeeded, and both
\* outcomes were returned
C23_Witness ==
  /\ bPc = "returned"
  /\ concurrency = 1
  /\ Len(returnedList) = 2
  /\ tEnd = <<"unavailable", "successData">>
  /\ returnedList[1].task = 1
  /\ returnedList[1].siteErrors /\ ~returnedList[1].success
  /\ returnedList[2].task = 2
  /\ returnedList[2].success /\ ~returnedList[2].siteErrors

\* C24: this.blacklist only grows, and the roll number of every successful
\* outcome pushed to results is on it, however the completions of the
\* concurrent pipelines are ordered.
C24_CacheAppendOnlyNoLostUpdate ==
  /\ [][blacklist \subseteq blacklist']_vars
  /\ [](\A n \in 1..Len(batchResults) :
          batchResults[n].success =>
            filteredStudents[batchResults[n].task].rollNumber \in blacklist)

\* two pipelines ran at the same time for two roll numbers that were not on
\* the blacklist, both succeeded, and both roll numbers are on it
C24_Witness ==
  /\ bPc = "returned"
  /\ concurrency = 2
  /\ blacklistAtCall = {}
  /\ Len(returnedList) = 2
  /\ returnedList[1].success /\ returnedList[2].success
  /\ filteredStudents[1].rollNumber # filteredStudents[2].rollNumber
  /\ blacklist = Rolls

\* the places of students that name a roll number, and the tasks whose
\* getResult call is in its attempt loop for it
Occurrences(roll) == {at \in 1..Len(students) : students[at].rollNumber = roll}
InProgress(roll) ==
  {k \in Running : tPath[k] = "loop" /\ filteredStudents[k].rollNumber = roll}

C28_InitIdempotent ==
  [][(initCalls' = initCalls + 1 /\ isPoolInitialized)
       => /\ pc'[Main] = "ready"
          /\ workerPool' = workerPool
          /\ nextWorker' = nextWorker
          /\ isPoolInitialized']_vars

\* C28 witness: the second call has returned on a pool in use, one slot of it
\* busy, with no more engines created than the first call asked for.
C28_Witness ==
  /\ initCalls = 2
  /\ pc[Main] = "ready"
  /\ isPoolInitialized
  /\ Len(workerPool) = 2
  /\ nextWorker = 2
  /\ \E k \in 1..Len(workerPool) : workerPool[k].busy

\* C29: cleanup terminates every engine of the pool and leaves the pool empty
\* and uninitialized; no slot of the pool ever carries a terminated engine, and
\* a solveCaptcha call holds a slot after cleanup only when the pool has been
\* initialized again, the slot carrying an engine created since.
C29_ShutdownResetsPool ==
  /\ [][(pc'[Main] = "cleaned" /\ pc[Main] # "cleaned")
         => /\ workerPool' = <<>>
            /\ ~isPoolInitialized'
            /\ Engines(workerPool) \subseteq disposed']_vars
  /\ [](Engines(workerPool) \cap disposed = {})
  /\ [](\A t \in Tasks :
          (pc[Main] = "cleaned" /\ held[t] # NoWorker)
            => /\ isPoolInitialized
               /\ held[t] \in Engines(workerPool)
               /\ held[t] \notin disposed)

\* C29 witness: cleanup terminated the engines of a pool, and a solveCaptcha
\* call made afterwards holds a slot of the pool it initialized again.
C29_Witness ==
  /\ pc[Main] = "cleaned"
  /\ disposed # {}
  /\ isPoolInitialized
  /\ \E t \in Tasks : held[t] # NoWorker /\ held[t] \notin disposed

\* the entry point's initWorkerPool call completes without throwing
InitCompletes == pc[Main] = "init" /\ pc'[Main] = "ready"
AllIdle(pool) == \A k \in 1..Len(pool) : ~pool[k].busy

Acquired(pool, w) == \E k \in 1..Len(pool) : pool[k].worker = w /\ pool[k].busy

\* C33: a releaseWorker call with an engine that no slot of the pool carries,
\* or whose slot is idle, leaves the pool as it was: no busy flag changes, so
\* no slot a solveCaptcha call holds becomes idle.
C33_StrayReleaseIsNoOp ==
  [][\A w \in 1..(nextWorker + 1) :
       (w \in released' /\ w \notin released /\ ~Acquired(workerPool, w))
         => workerPool' = workerPool]_vars

\* C33 witness: releaseWorker was called with the engine of the idle slot and
\* with an engine of no slot, while a solveCaptcha call holds the other slot,
\* which is still busy.
C33_Witness ==
  /\ Len(workerPool) = 2
  /\ released = {2, 3}
  /\ Engines(workerPool) = {1, 2}
  /\ held[1] = 1
  /\ workerPool[1].busy
  /\ ~workerPool[2].busy

\* the initWorkerPool calls that are in their loop
Initializers == {p \in Procs : pc[p] = "init"}
\* the largest poolSize an initWorkerPool call was made with
LargestPoolSize ==
  CHOOSE n \in {initN[p] : p \in Procs} : \A p \in Procs : initN[p] <= n

\* C37: at most one initWorkerPool call creates engines at a time, and the
\* pool never has more slots than the poolSize a call asked for.
C37_OneInitializerAtATime ==
  /\ Cardinality(Initializers) <= 1
  /\ Len(workerPool) <= LargestPoolSize

\* C30: every initWorkerPool call that started its loop ends, whatever
\* creations and initializations fail, and the pool is never reported
\* initialized without a slot.
C30_InitTerminates ==
  /\ \A p \in Procs : (pc[p] = "init") ~> (pc[p] \notin {"init", "retryWait"})
  /\ [](isPoolInitialized => Len(workerPool) > 0)

(***************************************************************************)
(* Properties of the blacklist.                                            *)
(***************************************************************************)
\* C36: every roll number on the blacklist has a result file.
C36_BlacklistedHasResultFile ==
  \A roll \in blacklist : files[roll] # NoFile

(***************************************************************************)
(* Properties of concurrent fetchInitialData calls.                        *)
(***************************************************************************)
\* C35: the session token in the context a fetchInitialData call returns is
\* a token the responses of that call issued (or none, when they issued
\* none), never the token issued to another call.
C35_ContextCarriesOwnToken ==
  \A c \in FetchCalls :
    fRet[c].kind = "data" => fRet[c].sessionId \in {c, NoSession}

(***************************************************************************)
(* Properties of the samples of solveCaptcha.                              *)
(***************************************************************************)
\* C34: no sample is recognized more than twice, and a sample whose
\* recognition was started is reported failed only after its second
\* recognition failed too.
C34_FailedOnlyAfterRetry ==
  \A t \in Tasks :
    /\ samples[t].recognitions <= 2
    /\ (samples[t].result = "failed" /\ samples[t].recognitions >= 1)
         => samples[t].recognitions = 2

\* the solveCaptcha calls that wait for the queue or for a slot, or are about
\* to validate the file
QueuedOrInFlight == {t \in Tasks : pc[t] \in {"queued", "waiting", "holding"}}

\* C38: the temporary file of a sample whose solveCaptcha call has not yet
\* validated it exists, whenever the timer of cleanupTempFiles fires.
C38_TempFileOutlivesSample ==
  \A t \in QueuedOrInFlight : samples[t].file = "written"

\* the solveCaptcha calls that hold a slot
InProgressWith(w) ==
  {t \in Tasks : held[t] = w /\ pc[t] \in {"holding", "recognize1", "recognize2"}}

\* C40: a slot is busy only while a solveCaptcha call in progress holds it; a
\* call that has ended, by whichever path, holds none; so every slot of the
\* pool is idle whenever no solveCaptcha call is in progress.
C40_SlotReleasedOnEveryExit ==
  /\ \A k \in 1..Len(workerPool) :
       workerPool[k].busy => InProgressWith(workerPool[k].worker) # {}
  /\ \A t \in Tasks : samples[t].result # "pending" => held[t] = NoWorker
  /\ (\A t \in Tasks : samples[t].result = "pending" => pc[t] = "idle")
       => AllIdle(workerPool)

\* C40 witness: one call ended on the validation of its image and one after
\* its second recognition failed, both on the one slot of the pool, which is
\* idle.
C40_Witness ==
  /\ Len(workerPool) = 1
  /\ AllIdle(workerPool)
  /\ pc[1] = "done"
  /\ pc[2] = "done"
  /\ samples[1].result = "failed"
  /\ samples[1].recognitions = 0
  /\ samples[2].result = "failed"
  /\ samples[2].recognitions = 2

(***************************************************************************)
(* Properties of the attempts of getResult.                                *)
(***************************************************************************)
\* the step of getResult is the end of an attempt at the given step: one
\* error with this attempt and this step is recorded, nothing is submitted,
\* and either the call is over or the next attempt begins with a
\* fetchInitialData call of its own
AttemptFailsAt(step) ==
  /\ Len(errors') = Len(errors) + 1
  /\ errors'[Len(errors')].attempt = attempt
  /\ errors'[Len(errors')].step = step
  /\ \A k \in 1..Len(errors) : errors'[k] = errors[k]
  /\ submissions' = submissions
  /\ \/ gPc' = "done"
     \/ /\ gPc' = "workflow"
        /\ attempt' = attempt + 1
        /\ workflowCalls' = workflowCalls + 1
        /\ scrapedData' = NoContext
        /\ captchaResult' = NoCaptcha

\* the awaited call of the running attempt settles
AttemptMoves == gPc' # gPc \/ attempt' # attempt

\* C32: an attempt whose fetchInitialData call returns null goes neither to
\* processCaptcha nor to submitFormWithCaptcha, and an attempt whose
\* processCaptcha call returns null does not go to submitFormWithCaptcha;
\* each is recorded as one failed attempt, and the next attempt, if there is
\* one, begins with fetchInitialData.  processCaptcha is given the context
\* fetched in the same attempt, and a submission is made only in an attempt
\* that has no error of step 1 or 2.
C32_FailedStepEndsAttempt ==
  /\ [][(gPc = "workflow" /\ AttemptMoves /\ scrapedData' = NoContext)
         => AttemptFailsAt(1)]_vars
  /\ [][(gPc = "captcha" /\ AttemptMoves /\ captchaResult' = NoCaptcha)
         => AttemptFailsAt(2)]_vars
  /\ [](gPc = "captcha" => scrapedData = NewContext(gCalls, workflowCalls))
  /\ [](gPc = "submit" => ~Missing(scrapedData) /\ ~Missing(captchaResult))
  /\ [](\A n \in 1..Len(submissions), k \in 1..Len(errors) :
          errors[k].attempt = submissions[n].attempt => errors[k].step = 3)

\* C32 witness: a call whose first attempt failed in fetchInitialData, whose
\* second failed in processCaptcha and whose third was submitted, with three
\* fetchInitialData calls and one submission.
C32_Witness ==
  /\ gPc = "done"
  /\ Len(errors) = 3
  /\ errors[1].step = 1
  /\ errors[2].step = 2
  /\ errors[3].step = 3
  /\ workflowCalls = 3
  /\ Len(submissions) = 1
  /\ submissions[1].attempt = 3

(***************************************************************************)
(* Properties of the network calls.                                        *)
(***************************************************************************)
\* C26: when the remote never answers the pending request of an attempt, the
\* awaited call still ends (as a failure of the attempt) and the getResult
\* call reaches its outcome.
C26_StalledCallEndsAsFailure ==
  [](remote = "stalled" => <>(gPc = "done"))

(***************************************************************************)
(* Properties of the outcome of getResult.                                 *)
(***************************************************************************)
\* siteErrors: siteErrors.length > 0 ? siteErrors : undefined
HasSiteErrors == siteErrors # <<>>
\* the attempts whose submission came back with the maintenance message
UnavailableAttempts ==
  {errors[n].attempt : n \in {k \in 1..Len(errors) :
                                errors[k].step = 3 /\ errors[k].error = Maintenance}}

\* C27: the outcome of the attempt loop has siteErrors set exactly when the
\* submission of one of its attempts came back with the maintenance message;
\* the outcome is then a failure, siteErrors names that one attempt, and it is
\* the last attempt that was run.
C27_SiteErrorsIffUnavailable ==
  (gPc = "done" /\ LoopPath) =>
    /\ HasSiteErrors <=> UnavailableAttempts # {}
    /\ HasSiteErrors =>
         /\ gRet.kind = "returned"
         /\ ~gRet.success
         /\ Len(siteErrors) = 1
         /\ siteErrors[1].error = Maintenance
         /\ UnavailableAttempts = {siteErrors[1].attempt}
         /\ siteErrors[1].attempt = attemptsRun

\* the first attempt failed on the unknown roll number and the second one met
\* the maintenance page, with an attempt left
C27_Witness ==
  /\ gPc = "done"
  /\ maxRetries = 3
  /\ Len(errors) = 2
  /\ errors[1].error = "Roll number does not exist"
  /\ HasSiteErrors
  /\ siteErrors[1].attempt = 2

====
